---- MODULE Spec2Model ----
(***************************************************************************)
(* Field evaluation (source/blender/functions/intern/field.cc): the        *)
(* procedure builder, the destruct pass, the input gatherer and the        *)
(* evaluate_fields / evaluate_constant_field entry points, as a state      *)
(* machine whose steps are the loop iterations of the C++ code.            *)
(***************************************************************************)
EXTENDS Integers, Sequences, FiniteSets, TLC

\* Longest list of requested fields.
MaxReq == 2
\* Number of elements of the caller's buffers and of the data of an Input.
NumElems == 2

(***************************************************************************)
(* The field graph.  A FieldSource is identified by its position in Graph  *)
(* (its address in the C++ code); a GField is a source and an output index.*)
(***************************************************************************)
GField(s, k) == [src |-> s, idx |-> k]

FieldInput(name) == [kind |-> "input", name |-> name, fn |-> "none", inputs |-> <<>>]

FieldOperation(fn, inputs) == [kind |-> "operation", name |-> fn, fn |-> fn, inputs |-> inputs]

\* 1: A   2: B   3: a second Input with A's name and data
\* 4: double(A)   5: mul(A, the second A)   6: square(double(A)) = mul(4, 4)
\* 7: addsub(A, B), two outputs (A + B, A - B)   8: a second double(A)
\* 9: mul(A - B, A + B)
Graph ==
  << FieldInput("A"),
     FieldInput("B"),
     FieldInput("A"),
     FieldOperation("double", << GField(1, 0) >>),
     FieldOperation("mul", << GField(1, 0), GField(3, 0) >>),
     FieldOperation("mul", << GField(4, 0), GField(4, 0) >>),
     FieldOperation("addsub", << GField(1, 0), GField(2, 0) >>),
     FieldOperation("double", << GField(1, 0) >>),
     FieldOperation("mul", << GField(7, 1), GField(7, 0) >>) >>

Sources == DOMAIN Graph

\* Number of outputs of a multi-function.
NumOutputs(fn) == IF fn = "addsub" THEN 2 ELSE 1

\* The multi-function of an operation, applied to the values of its inputs.
FnApply(fn, args) ==
  CASE fn = "double" -> << 2 * args[1] >>
    [] fn = "mul" -> << args[1] * args[2] >>
    [] fn = "addsub" -> << args[1] + args[2], args[1] - args[2] >>

is_input(field) == Graph[field.src].kind = "input"

SourceOutputs(s) == IF Graph[s].kind = "input" THEN 1 ELSE NumOutputs(Graph[s].fn)

Fields == { GField(s, k) : s \in Sources, k \in 0..1 } \cap
          { f \in [src : Sources, idx : 0..1] : f.idx < SourceOutputs(f.src) }

\* FieldInput::get_varray_generic_context(mask), read at index i.
InputValue(s, i) == IF Graph[s].name = "B" THEN 5 + i ELSE 3 - i

\* The value of a field at index i, as the graph defines it.
RECURSIVE FieldValue(_, _)
FieldValue(field, i) ==
  IF is_input(field)
    THEN InputValue(field.src, i)
    ELSE LET operation == Graph[field.src]
             args == [k \in DOMAIN operation.inputs |-> FieldValue(operation.inputs[k], i)]
         IN FnApply(operation.fn, args)[field.idx + 1]

\* The sources reachable from a field, the field's own source included.
RECURSIVE Reachable(_)
Reachable(s) ==
  {s} \cup UNION { Reachable(Graph[s].inputs[k].src) : k \in DOMAIN Graph[s].inputs }

ReachableFrom(fs) == UNION { Reachable(fs[k].src) : k \in DOMAIN fs }

(***************************************************************************)
(* Containers.                                                             *)
(***************************************************************************)
Min(S) == CHOOSE x \in S : \A y \in S : x <= y

Pop(st) == SubSeq(st, 1, Len(st) - 1)

Peek(st) == st[Len(st)]

\* Vector::remove_and_reorder: the last element takes the place of element idx.
remove_and_reorder(v, idx) ==
  IF idx = Len(v)
    THEN SubSeq(v, 1, Len(v) - 1)
    ELSE [SubSeq(v, 1, Len(v) - 1) EXCEPT ![idx] = v[Len(v)]]

RECURSIVE Perms(_)
Perms(S) ==
  IF S = {} THEN { <<>> }
  ELSE UNION { { <<x>> \o p : p \in Perms(S \ {x}) } : x \in S }

RECURSIVE Flatten(_)
Flatten(ss) == IF ss = <<>> THEN <<>> ELSE Head(ss) \o Flatten(Tail(ss))

Range(f) == { f[x] : x \in DOMAIN f }

(***************************************************************************)
(* MFProcedure and MFProcedureBuilder.                                     *)
(***************************************************************************)
EmptyProcedure == [params |-> <<>>, instrs |-> <<>>, nvars |-> 0]

Instr(op, fn, ins, outs) == [op |-> op, fn |-> fn, ins |-> ins, outs |-> outs]

add_input_parameter(proc) ==
  [proc |-> [proc EXCEPT !.params = Append(@, [kind |-> "in", var |-> proc.nvars + 1]),
                         !.nvars = @ + 1],
   var |-> proc.nvars + 1]

add_call(proc, fn, inputs) ==
  LET outs == [k \in 1..NumOutputs(fn) |-> proc.nvars + k]
  IN [proc |-> [proc EXCEPT !.instrs = Append(@, Instr("call", fn, inputs, outs)),
                            !.nvars = @ + NumOutputs(fn)],
      outputs |-> outs]

add_destruct(proc, v) ==
  [proc EXCEPT !.instrs = Append(@, Instr("destruct", "none", << v >>, <<>>))]

add_return(proc) ==
  [proc EXCEPT !.instrs = Append(@, Instr("return", "none", <<>>, <<>>))]

add_output_parameter(proc, v) ==
  [proc EXCEPT !.params = Append(@, [kind |-> "out", var |-> v])]

(***************************************************************************)
(* The procedure builder.  unique_variables is a function from the sources *)
(* that have an entry to their list of variables.                          *)
(***************************************************************************)
EmptyMap == [s \in {} |-> <<>>]

get_field_variable(field, unique_variables) ==
  IF is_input(field)
    THEN unique_variables[field.src][1]
    ELSE unique_variables[field.src][field.idx + 1]

\* add_variables_for_input reusing the variable of an Input with the same name and data.
add_variables_for_input_merged(field, fields_to_visit, proc, unique_variables) ==
  LET same == { t \in DOMAIN unique_variables : Graph[t] = Graph[field.src] }
      r == add_input_parameter(proc)
  IN IF same # {}
       THEN [stack |-> Pop(fields_to_visit),
             proc |-> proc,
             map |-> unique_variables @@ (field.src :> unique_variables[Min(same)])]
       ELSE [stack |-> Pop(fields_to_visit),
             proc |-> r.proc,
             map |-> unique_variables @@ (field.src :> << r.var >>)]


add_variables_for_input(field, fields_to_visit, proc, unique_variables) ==
  LET r == add_input_parameter(proc)
  IN [stack |-> Pop(fields_to_visit),
      proc |-> r.proc,
      map |-> unique_variables @@ (field.src :> << r.var >>)]

\* add_variables_for_operation passing fresh variables to the call, not the recorded ones.
add_variables_for_operation_fresh(field, fields_to_visit, proc, unique_variables) ==
  LET operation == Graph[field.src]
      missing == { k \in DOMAIN operation.inputs :
                     operation.inputs[k].src \notin DOMAIN unique_variables }
  IN IF missing # {}
       THEN [stack |-> Append(fields_to_visit, operation.inputs[Min(missing)]),
             proc |-> proc,
             map |-> unique_variables]
       ELSE LET inputs == [k \in DOMAIN operation.inputs |-> proc.nvars + k]
                r == add_call([proc EXCEPT !.nvars = @ + Len(operation.inputs)],
                              operation.fn, inputs)
            IN [stack |-> Pop(fields_to_visit),
                proc |-> r.proc,
                map |-> (field.src :> r.outputs) @@ unique_variables]

\* The list without the later occurrences of an element.
RECURSIVE Distinct(_)
Distinct(seq) ==
  IF seq = <<>> THEN <<>>
  ELSE LET rest == Distinct(SubSeq(seq, 1, Len(seq) - 1))
           last == seq[Len(seq)]
       IN IF \E k \in DOMAIN rest : rest[k] = last THEN rest ELSE Append(rest, last)

\* add_variables_for_operation passing the unique_inputs, each variable once, to the call.
add_variables_for_operation_collapsed(field, fields_to_visit, proc, unique_variables) ==
  LET operation == Graph[field.src]
      missing == { k \in DOMAIN operation.inputs :
                     operation.inputs[k].src \notin DOMAIN unique_variables }
  IN IF missing # {}
       THEN [stack |-> Append(fields_to_visit, operation.inputs[Min(missing)]),
             proc |-> proc,
             map |-> unique_variables]
       ELSE LET inputs == [k \in DOMAIN operation.inputs |->
                             get_field_variable(operation.inputs[k], unique_variables)]
                r == add_call(proc, operation.fn, Distinct(inputs))
            IN [stack |-> Pop(fields_to_visit),
                proc |-> r.proc,
                map |-> (field.src :> r.outputs) @@ unique_variables]


\* add_variables_for_operation pushing the last missing input, not the first.
add_variables_for_operation_last_missing(field, fields_to_visit, proc, unique_variables) ==
  LET operation == Graph[field.src]
      missing == { k \in DOMAIN operation.inputs :
                     operation.inputs[k].src \notin DOMAIN unique_variables }
  IN IF missing # {}
       THEN [stack |-> Append(fields_to_visit,
                              operation.inputs[CHOOSE k \in missing :
                                                 \A j \in missing : j <= k]),
             proc |-> proc,
             map |-> unique_variables]
       ELSE LET inputs == [k \in DOMAIN operation.inputs |->
                             get_field_variable(operation.inputs[k], unique_variables)]
                r == add_call(proc, operation.fn, inputs)
            IN [stack |-> Pop(fields_to_visit),
                proc |-> r.proc,
                map |-> (field.src :> r.outputs) @@ unique_variables]


\* add_variables_for_operation pushing every input Field whose source has no entry.
add_variables_for_operation_all_missing(field, fields_to_visit, proc, unique_variables) ==
  LET operation == Graph[field.src]
      missing == SelectSeq(operation.inputs,
                           LAMBDA f : f.src \notin DOMAIN unique_variables)
  IN IF missing # <<>>
       THEN [stack |-> fields_to_visit \o missing,
             proc |-> proc,
             map |-> unique_variables]
       ELSE LET inputs == [k \in DOMAIN operation.inputs |->
                             get_field_variable(operation.inputs[k], unique_variables)]
                r == add_call(proc, operation.fn, inputs)
            IN [stack |-> Pop(fields_to_visit),
                proc |-> r.proc,
                map |-> (field.src :> r.outputs) @@ unique_variables]


add_variables_for_operation(field, fields_to_visit, proc, unique_variables) ==
  LET operation == Graph[field.src]
      missing == { k \in DOMAIN operation.inputs :
                     operation.inputs[k].src \notin DOMAIN unique_variables }
  IN IF missing # {}
       THEN [stack |-> Append(fields_to_visit, operation.inputs[Min(missing)]),
             proc |-> proc,
             map |-> unique_variables]
       ELSE LET inputs == [k \in DOMAIN operation.inputs |->
                             get_field_variable(operation.inputs[k], unique_variables)]
                r == add_call(proc, operation.fn, inputs)
                old == IF field.src \in DOMAIN unique_variables
                         THEN unique_variables[field.src] ELSE <<>>
            IN [stack |-> Pop(fields_to_visit),
                proc |-> r.proc,
                map |-> (field.src :> (old \o r.outputs)) @@ unique_variables]

\* add_unique_variables without the early pop of a field whose source has an entry.
add_unique_variables_step_always(fields_to_visit, proc, unique_variables) ==
  LET field == Peek(fields_to_visit)
  IN IF is_input(field)
       THEN add_variables_for_input(field, fields_to_visit, proc, unique_variables)
       ELSE add_variables_for_operation(field, fields_to_visit, proc, unique_variables)

\* add_unique_variables leaving on the stack a field whose source has an entry.
add_unique_variables_step_no_pop(fields_to_visit, proc, unique_variables) ==
  LET field == Peek(fields_to_visit)
  IN IF field.src \in DOMAIN unique_variables
       THEN [stack |-> fields_to_visit, proc |-> proc, map |-> unique_variables]
       ELSE IF is_input(field)
         THEN add_variables_for_input(field, fields_to_visit, proc, unique_variables)
         ELSE add_variables_for_operation(field, fields_to_visit, proc, unique_variables)


\* One iteration of the while loop of add_unique_variables.
add_unique_variables_step(fields_to_visit, proc, unique_variables) ==
  LET field == Peek(fields_to_visit)
  IN IF field.src \in DOMAIN unique_variables
       THEN [stack |-> Pop(fields_to_visit), proc |-> proc, map |-> unique_variables]
       ELSE IF is_input(field)
         THEN add_variables_for_input(field, fields_to_visit, proc, unique_variables)
         ELSE add_variables_for_operation(field, fields_to_visit, proc, unique_variables)

RECURSIVE add_destructs_loop(_, _, _)
add_destructs_loop(proc, variables, outputs) ==
  IF variables = <<>> THEN proc
  ELSE add_destructs_loop(
         IF Head(variables) \notin outputs THEN add_destruct(proc, Head(variables)) ELSE proc,
         Tail(variables), outputs)

\* add_destructs looking only at the first variable of every entry.
add_destructs_first(fs, proc, unique_variables, order) ==
  LET outputs == { get_field_variable(fs[k], unique_variables) : k \in DOMAIN fs }
      variables == [k \in DOMAIN order |-> unique_variables[order[k]][1]]
  IN add_destructs_loop(proc, variables, outputs)

\* add_destructs without the test of the outputs set.
add_destructs_all(fs, proc, unique_variables, order) ==
  LET variables == Flatten([k \in DOMAIN order |-> unique_variables[order[k]]])
  IN add_destructs_loop(proc, variables, {})


\* add_destructs walking the entries of the Operations only.
add_destructs_operations_only(fs, proc, unique_variables, order) ==
  LET outputs == { get_field_variable(fs[k], unique_variables) : k \in DOMAIN fs }
      variables == Flatten([k \in DOMAIN order |->
                              IF Graph[order[k]].kind = "input" THEN <<>>
                              ELSE unique_variables[order[k]]])
  IN add_destructs_loop(proc, variables, outputs)


\* order: the order in which unique_variables.values() enumerates the entries.
add_destructs(fs, proc, unique_variables, order) ==
  LET outputs == { get_field_variable(fs[k], unique_variables) : k \in DOMAIN fs }
      variables == Flatten([k \in DOMAIN order |-> unique_variables[order[k]]])
  IN add_destructs_loop(proc, variables, outputs)

\* The output parameter loop of build_procedure declaring each variable once.
RECURSIVE add_output_parameters_unique(_, _, _)
add_output_parameters_unique(fs, proc, unique_variables) ==
  IF fs = <<>> THEN proc
  ELSE LET v == get_field_variable(Head(fs), unique_variables)
       IN add_output_parameters_unique(
            Tail(fs),
            IF \E j \in DOMAIN proc.params :
                 proc.params[j].kind = "out" /\ proc.params[j].var = v
              THEN proc
            ELSE add_output_parameter(proc, v),
            unique_variables)


RECURSIVE add_output_parameters(_, _, _)
add_output_parameters(fs, proc, unique_variables) ==
  IF fs = <<>> THEN proc
  ELSE add_output_parameters(
         Tail(fs),
         add_output_parameter(proc, get_field_variable(Head(fs), unique_variables)),
         unique_variables)

(***************************************************************************)
(* MFProcedure::validate, the structural validation of a procedure.        *)
(***************************************************************************)
InputParameterVariables(proc) ==
  { proc.params[j].var : j \in { j \in DOMAIN proc.params : proc.params[j].kind = "in" } }

OutputParameterVariables(proc) ==
  { proc.params[j].var : j \in { j \in DOMAIN proc.params : proc.params[j].kind = "out" } }

\* The variables that hold a value before instruction k.
InitializedBefore(proc, k) ==
  InputParameterVariables(proc) \cup
  UNION { Range(proc.instrs[j].outs) :
            j \in { j \in 1..(k - 1) : proc.instrs[j].op = "call" } }

\* The variables released before instruction k.
DestructedBefore(proc, k) ==
  { proc.instrs[j].ins[1] : j \in { j \in 1..(k - 1) : proc.instrs[j].op = "destruct" } }

validate(proc) ==
  /\ \A k \in DOMAIN proc.instrs :
       /\ proc.instrs[k].op \in {"call", "destruct"} =>
            Range(proc.instrs[k].ins) \subseteq
              InitializedBefore(proc, k) \ DestructedBefore(proc, k)
       /\ proc.instrs[k].op = "return" => k = Len(proc.instrs)
  /\ proc.instrs # <<>>
  /\ proc.instrs[Len(proc.instrs)].op = "return"
  /\ OutputParameterVariables(proc) \subseteq
       InitializedBefore(proc, Len(proc.instrs)) \ DestructedBefore(proc, Len(proc.instrs))

(***************************************************************************)
(* Input gathering.  The params builder is the list of the bindings added, *)
(* in order: a readonly input (the data of a source) or an output buffer   *)
(* (its position in the caller's list of buffers).                         *)
(***************************************************************************)
ReadonlyInput(s) == [kind |-> "in", src |-> s, buf |-> 0]

UninitializedOutput(b) == [kind |-> "out", src |-> 0, buf |-> b]

\* gather_inputs with the test of computed_inputs inverted.
gather_inputs_step_inverted(stack, map, computed, builder, npulls) ==
  LET field == Peek(stack)
      rest == Pop(stack)
  IN IF is_input(field)
       THEN LET variable == get_field_variable(field, map)
            IN IF variable \in computed
                 THEN [stack |-> rest,
                       computed |-> computed \cup {variable},
                       params |-> Append(builder, ReadonlyInput(field.src)),
                       pulls |-> [npulls EXCEPT ![field.src] = @ + 1]]
                 ELSE [stack |-> rest, computed |-> computed,
                       params |-> builder, pulls |-> npulls]
       ELSE [stack |-> rest \o Graph[field.src].inputs, computed |-> computed,
             params |-> builder, pulls |-> npulls]

\* gather_inputs without the test of computed_inputs.
gather_inputs_step_rebind(stack, map, computed, builder, npulls) ==
  LET field == Peek(stack)
      rest == Pop(stack)
  IN IF is_input(field)
       THEN [stack |-> rest,
             computed |-> computed \cup { get_field_variable(field, map) },
             params |-> Append(builder, ReadonlyInput(field.src)),
             pulls |-> [npulls EXCEPT ![field.src] = @ + 1]]
       ELSE [stack |-> rest \o Graph[field.src].inputs, computed |-> computed,
             params |-> builder, pulls |-> npulls]


\* One iteration of the while loop of gather_inputs.
gather_inputs_step(stack, map, computed, builder, npulls) ==
  LET field == Peek(stack)
      rest == Pop(stack)
  IN IF is_input(field)
       THEN LET variable == get_field_variable(field, map)
            IN IF variable \notin computed
                 THEN [stack |-> rest,
                       computed |-> computed \cup {variable},
                       params |-> Append(builder, ReadonlyInput(field.src)),
                       pulls |-> [npulls EXCEPT ![field.src] = @ + 1]]
                 ELSE [stack |-> rest, computed |-> computed,
                       params |-> builder, pulls |-> npulls]
       ELSE [stack |-> rest \o Graph[field.src].inputs, computed |-> computed,
             params |-> builder, pulls |-> npulls]

\* add_outputs leaving out the last buffer.
add_outputs_but_last(builder, outs) ==
  builder \o [k \in 1..(Len(outs) - 1) |-> UninitializedOutput(outs[k])]

add_outputs(builder, outs) ==
  builder \o [k \in DOMAIN outs |-> UninitializedOutput(outs[k])]

(***************************************************************************)
(* MFProcedureExecutor::call.  Parameter j of the procedure is bound to    *)
(* binding j of the params builder; the instructions run for every masked  *)
(* index; a variable without a value reads as garbage.                     *)
(***************************************************************************)
InitialStore(proc, builder, i) ==
  [v \in 1..proc.nvars |->
     LET js == { j \in DOMAIN proc.params :
                   /\ proc.params[j].kind = "in"
                   /\ proc.params[j].var = v
                   /\ j \in DOMAIN builder
                   /\ builder[j].kind = "in" }
     IN IF js = {} THEN <<>> ELSE << InputValue(builder[Min(js)].src, i) >>]

RECURSIVE RunInstructions(_, _, _)
RunInstructions(instrs, store, garbage) ==
  IF instrs = <<>> THEN store
  ELSE LET ins == Head(instrs)
       IN CASE ins.op = "return" -> store
            [] ins.op = "destruct" ->
                 RunInstructions(Tail(instrs), [store EXCEPT ![ins.ins[1]] = <<>>], garbage)
            [] ins.op = "call" ->
                 LET args == [k \in DOMAIN ins.ins |->
                                IF store[ins.ins[k]] = <<>> THEN garbage
                                ELSE store[ins.ins[k]][1]]
                     res == FnApply(ins.fn, args)
                 IN RunInstructions(
                      Tail(instrs),
                      [v \in DOMAIN store |->
                         IF \E k \in DOMAIN ins.outs : ins.outs[k] = v
                           THEN << res[CHOOSE k \in DOMAIN ins.outs : ins.outs[k] = v] >>
                           ELSE store[v]],
                      garbage)

executor_call(proc, builder, msk, bufs, garbage) ==
  [b \in DOMAIN bufs |->
     [i \in DOMAIN bufs[b] |->
        LET js == { j \in DOMAIN proc.params :
                      /\ proc.params[j].kind = "out"
                      /\ j \in DOMAIN builder
                      /\ builder[j].kind = "out"
                      /\ builder[j].buf = b }
        IN IF i \in msk /\ js # {}
             THEN LET final == RunInstructions(proc.instrs,
                                               InitialStore(proc, builder, i), garbage)
                      val == final[proc.params[Min(js)].var]
                  IN IF val = <<>> THEN garbage ELSE val[1]
             ELSE bufs[b][i]]]

\* The (buffer, index) pairs the executor writes.
executor_writes(proc, builder, msk) ==
  { << builder[j].buf, i >> :
      j \in { j \in DOMAIN proc.params \cap DOMAIN builder :
                proc.params[j].kind = "out" /\ builder[j].kind = "out" },
      i \in msk }

GarbageValues == { -77, -78 }

\* GVArray::materialize(mask, dst).
materialize(s, msk, buf) ==
  [i \in DOMAIN buf |-> IF i \in msk THEN InputValue(s, i) ELSE buf[i]]

\* The caller's buffer b, n elements long, before the call.
InitBuffer(b, n) == [i \in 0..(n - 1) |-> 1000 + 10 * b + i]

\* The graphs callers build: sets of sources closed under the inputs of their operations.
\* A chain with a shared Input; two Inputs into an operation with two outputs, both
\* used by a further operation; two Inputs with the same name and data.
Graphs == { {1, 4, 6, 8}, {1, 2, 7, 9}, {1, 3, 5} }

\* The lists of at most MaxReq fields of one graph.
Requests ==
  UNION { UNION { [1..n -> { f \in Fields : f.src \in g }] : n \in 0..MaxReq } : g \in Graphs }

Masks == SUBSET (0..(NumElems - 1))

(***************************************************************************)
(* State.                                                                  *)
(***************************************************************************)
VARIABLES
  pc,                 \* position in the call
  entry,              \* the public function called
  fields,             \* argument: the requested fields
  mask,               \* argument: the index mask
  outputs,            \* the caller's buffers, in the order of the argument
  calls,              \* number of calls started
  prev_outputs,       \* the buffers as the previous call left them
  i,                  \* loop index of the splitting loop (1-based)
  non_input_fields,
  non_input_outputs,  \* positions, in outputs, of the buffers kept
  procedure,
  unique_variables,
  fields_to_visit,    \* the worklist of add_unique_variables, then of gather_inputs
  computed_inputs,
  params,             \* MFParamsBuilder: the bindings added so far
  pulls,              \* per source: calls of get_varray_generic_context in this call
  written,            \* (buffer, index) pairs written in this call
  materialized,       \* (source, buffer) pairs materialized in the splitting loop
  built,              \* the lists of fields passed to build_procedure in this call
  executed,           \* number of executor calls in this call
  pushed,             \* per source: pushes by add_variables_for_operation in this call
  examined,           \* per source: effects of add_variables_for_operation in this call
  iterations,         \* iterations of the loop of add_unique_variables in this call
  expanded,           \* per source: expansions by gather_inputs in this call
  blocked             \* positions, in fields_to_visit, of the Operations that pushed an input

(***************************************************************************)
(* OVERLAY_draw_scene and EmbeddedMesh::compute_embedding are programs of    *)
(* their own: each has its variables and its specification, and the steps  *)
(* of one leave the variables of the others unchanged.                     *)
(***************************************************************************)
VARIABLES
  draw_pc,            \* position in OVERLAY_draw_scene
  ctx_mode,           \* pd->ctx_mode
  is_fbo,             \* DRW_state_is_fbo()
  clear_in_front,     \* pd->clear_in_front
  draw_i,             \* calls made of the straight-line run of calls at draw_pc
  scene_calls         \* the calls OVERLAY_draw_scene has made, in order

VARIABLES
  emb_pc,             \* position in EmbeddedMesh::compute_embedding
  emb_rest_x,         \* the rest positions of the embedded vertices
  emb_barys,          \* per embedded vertex: its row of four barycentric coordinates
  emb_vtx_to_tet,     \* per embedded vertex: the index of its lattice tet
  task_pc,            \* per vertex index: position in parallel_point_in_tet
  tet_idx,            \* per vertex index: the local tet_idx of the task (-1: none)
  accesses,           \* the (task, location, kind) accesses of the parallel tasks
  check_i,            \* index of the loop that checks the barycentric coordinates
  embedding_result    \* what compute_embedding returned

field_vars ==
  << pc, entry, fields, mask, outputs, calls, prev_outputs, i, non_input_fields,
     non_input_outputs, procedure, unique_variables, fields_to_visit,
     computed_inputs, params, pulls, written, materialized, built, executed,
     pushed, examined, iterations, expanded, blocked >>

overlay_vars == << draw_pc, ctx_mode, is_fbo, clear_in_front, draw_i, scene_calls >>

embedding_vars ==
  << emb_pc, emb_rest_x, emb_barys, emb_vtx_to_tet, task_pc, tet_idx, accesses,
     check_i, embedding_result >>

\* The variables of the programs other than the field evaluation.
elsewhere == << overlay_vars, embedding_vars >>

\* No OVERLAY_draw_scene has been called.
OverlayInit ==
  /\ draw_pc = "idle"
  /\ ctx_mode = "CTX_MODE_OBJECT"
  /\ is_fbo = FALSE
  /\ clear_in_front = FALSE
  /\ draw_i = 0
  /\ scene_calls = <<>>

\* An EmbeddedMesh on which compute_embedding has not been called.
EmbeddingInit ==
  /\ emb_pc = "idle"
  /\ emb_rest_x = <<>>
  /\ emb_barys = <<>>
  /\ emb_vtx_to_tet = <<>>
  /\ task_pc = <<>>
  /\ tet_idx = <<>>
  /\ accesses = {}
  /\ check_i = 0
  /\ embedding_result = "none"

vars == << field_vars, overlay_vars, embedding_vars >>

locals == << i, non_input_fields, non_input_outputs, procedure, unique_variables,
             fields_to_visit, computed_inputs, params >>

call_args == << entry, fields, mask >>

history == << calls, prev_outputs >>

ghosts == << pulls, written, materialized, built, executed >>

NoPulls == [s \in Sources |-> 0]

counters == << pushed, examined, iterations, blocked >>

\* The count of iterations stops here, above every count the loop can reach.
MaxIterations == 2 * (MaxReq + Cardinality(Sources) * Cardinality(Sources))

Init ==
  /\ pc = "idle"
  /\ entry = "none"
  /\ fields = <<>>
  /\ mask = {}
  /\ outputs = <<>>
  /\ calls = 0
  /\ prev_outputs = <<>>
  /\ i = 0
  /\ non_input_fields = <<>>
  /\ non_input_outputs = <<>>
  /\ procedure = EmptyProcedure
  /\ unique_variables = EmptyMap
  /\ fields_to_visit = <<>>
  /\ computed_inputs = {}
  /\ params = <<>>
  /\ pulls = NoPulls
  /\ written = {}
  /\ materialized = {}
  /\ built = <<>>
  /\ executed = 0
  /\ pushed = NoPulls
  /\ blocked = {}
  /\ examined = NoPulls
  /\ iterations = 0
  /\ expanded = NoPulls
  /\ OverlayInit
  /\ EmbeddingInit

\* The entry of evaluate_fields with the map and the procedure of the call before.
Enter_stale(e, fs, msk, bufs) ==
  /\ pc' = "evaluate_fields"
  /\ entry' = e
  /\ fields' = fs
  /\ mask' = msk
  /\ outputs' = bufs
  /\ calls' = calls + 1
  /\ i' = 0
  /\ non_input_fields' = <<>>
  /\ non_input_outputs' = <<>>
  /\ UNCHANGED << procedure, unique_variables >>
  /\ fields_to_visit' = <<>>
  /\ computed_inputs' = {}
  /\ params' = <<>>
  /\ pulls' = NoPulls
  /\ written' = {}
  /\ materialized' = {}
  /\ built' = <<>>
  /\ executed' = 0
  /\ pushed' = NoPulls
  /\ blocked' = {}
  /\ examined' = NoPulls
  /\ iterations' = 0
  /\ expanded' = NoPulls
  /\ UNCHANGED elsewhere


\* The state at the entry of evaluate_fields.
Enter(e, fs, msk, bufs) ==
  /\ pc' = "evaluate_fields"
  /\ entry' = e
  /\ fields' = fs
  /\ mask' = msk
  /\ outputs' = bufs
  /\ calls' = calls + 1
  /\ i' = 0
  /\ non_input_fields' = <<>>
  /\ non_input_outputs' = <<>>
  /\ procedure' = EmptyProcedure
  /\ unique_variables' = EmptyMap
  /\ fields_to_visit' = <<>>
  /\ computed_inputs' = {}
  /\ params' = <<>>
  /\ pulls' = NoPulls
  /\ written' = {}
  /\ materialized' = {}
  /\ built' = <<>>
  /\ executed' = 0
  /\ pushed' = NoPulls
  /\ blocked' = {}
  /\ examined' = NoPulls
  /\ iterations' = 0
  /\ expanded' = NoPulls
  /\ UNCHANGED elsewhere

\* A caller calls evaluate_fields(fs, msk, n buffers of NumElems elements).
call_evaluate_fields ==
  /\ pc = "idle"
  /\ \E fs \in Requests, msk \in Masks, n \in 0..MaxReq :
       Enter("evaluate_fields", fs, msk, [b \in 1..n |-> InitBuffer(b, NumElems)])
  /\ UNCHANGED prev_outputs

\* evaluate_constant_field(field, r_value): one field, IndexRange(1), a span of 1 element.
evaluate_constant_field ==
  /\ pc = "idle"
  /\ \E field \in Fields :
       Enter("evaluate_constant_field", << field >>, 0..0, << InitBuffer(1, 1) >>)
  /\ UNCHANGED prev_outputs

\* The call is run a second time: same graph, fields, mask, Input data and initial buffers.
call_again ==
  /\ pc = "done"
  /\ calls = 1
  /\ Enter(entry, fields, mask,
           [b \in DOMAIN outputs |-> InitBuffer(b, Cardinality(DOMAIN outputs[b]))])
  /\ prev_outputs' = outputs

\* A failed BLI_assert is fatal: the call ends there.
BLI_assert_failed == pc' = "aborted"

\* evaluate_fields asserting only that there are not more fields than buffers.
evaluate_fields_begin_at_most ==
  /\ pc = "evaluate_fields"
  /\ IF Len(fields) > Len(outputs)
       THEN /\ BLI_assert_failed
            /\ UNCHANGED << i, non_input_fields, non_input_outputs >>
       ELSE /\ pc' = "split"
            /\ non_input_fields' = fields
            /\ non_input_outputs' = [b \in DOMAIN outputs |-> b]
            /\ i' = Len(fields)
  /\ UNCHANGED << elsewhere, expanded, counters, call_args, outputs, history, procedure,
                  unique_variables, fields_to_visit, computed_inputs, params, ghosts >>

\* BLI_assert(fields.size() == outputs.size()), then the copies of both lists.
evaluate_fields_begin ==
  /\ pc = "evaluate_fields"
  /\ IF Len(fields) # Len(outputs)
       THEN /\ BLI_assert_failed
            /\ UNCHANGED << i, non_input_fields, non_input_outputs >>
       ELSE /\ pc' = "split"
            /\ non_input_fields' = fields
            /\ non_input_outputs' = [b \in DOMAIN outputs |-> b]
            /\ i' = Len(fields)
  /\ UNCHANGED << elsewhere, expanded, counters, call_args, outputs, history, procedure,
                  unique_variables, fields_to_visit, computed_inputs, params, ghosts >>

\* The splitting loop removing the bare Input from non_input_fields only.
split_loop_fields_only ==
  /\ pc = "split"
  /\ i >= 1
  /\ IF is_input(non_input_fields[i])
       THEN /\ pulls' = [pulls EXCEPT ![non_input_fields[i].src] = @ + 1]
            /\ outputs' = [outputs EXCEPT
                             ![i] = materialize(non_input_fields[i].src, mask, @)]
            /\ written' = written \cup { << i, j >> : j \in mask }
            /\ materialized' = materialized \cup { << non_input_fields[i].src, i >> }
            /\ non_input_fields' = remove_and_reorder(non_input_fields, i)
            /\ UNCHANGED non_input_outputs
       ELSE UNCHANGED << pulls, outputs, written, materialized,
                         non_input_fields, non_input_outputs >>
  /\ i' = i - 1
  /\ UNCHANGED << pc, elsewhere, expanded, counters, call_args, history, procedure,
                  unique_variables, fields_to_visit, computed_inputs, params, built,
                  executed >>


\* The splitting loop stopping above the first field (i > 0 for i >= 0).
split_loop_above_first ==
  /\ pc = "split"
  /\ i >= 1
  /\ IF i >= 2 /\ is_input(non_input_fields[i])
       THEN /\ pulls' = [pulls EXCEPT ![non_input_fields[i].src] = @ + 1]
            /\ outputs' = [outputs EXCEPT
                             ![i] = materialize(non_input_fields[i].src, mask, @)]
            /\ written' = written \cup { << i, j >> : j \in mask }
            /\ materialized' = materialized \cup { << non_input_fields[i].src, i >> }
            /\ non_input_fields' = remove_and_reorder(non_input_fields, i)
            /\ non_input_outputs' = remove_and_reorder(non_input_outputs, i)
       ELSE UNCHANGED << pulls, outputs, written, materialized,
                         non_input_fields, non_input_outputs >>
  /\ i' = i - 1
  /\ UNCHANGED << pc, elsewhere, expanded, counters, call_args, history, procedure,
                  unique_variables, fields_to_visit, computed_inputs, params, built,
                  executed >>


\* One iteration of the splitting loop (i counts down).
split_loop ==
  /\ pc = "split"
  /\ i >= 1
  /\ IF is_input(non_input_fields[i])
       THEN /\ pulls' = [pulls EXCEPT ![non_input_fields[i].src] = @ + 1]
            /\ outputs' = [outputs EXCEPT
                             ![i] = materialize(non_input_fields[i].src, mask, @)]
            /\ written' = written \cup { << i, j >> : j \in mask }
            /\ materialized' = materialized \cup { << non_input_fields[i].src, i >> }
            /\ non_input_fields' = remove_and_reorder(non_input_fields, i)
            /\ non_input_outputs' = remove_and_reorder(non_input_outputs, i)
       ELSE UNCHANGED << pulls, outputs, written, materialized,
                         non_input_fields, non_input_outputs >>
  /\ i' = i - 1
  /\ UNCHANGED << pc, elsewhere, expanded, counters, call_args, history, procedure,
                  unique_variables, fields_to_visit, computed_inputs, params, built,
                  executed >>

\* evaluate_fields without the test non_input_fields.is_empty().
split_exit_always ==
  /\ pc = "split"
  /\ i = 0
  /\ pc' = "add_unique_variables"
  /\ fields_to_visit' = non_input_fields
  /\ built' = Append(built, non_input_fields)
  /\ UNCHANGED << elsewhere, expanded, counters, call_args, outputs, history, i,
                  non_input_fields, non_input_outputs, procedure, unique_variables,
                  computed_inputs, params, pulls, written, materialized, executed >>

\* The end of the splitting loop; evaluate_non_input_fields starts build_procedure.
split_exit ==
  /\ pc = "split"
  /\ i = 0
  /\ IF non_input_fields = <<>>
       THEN /\ pc' = "done"
            /\ UNCHANGED << fields_to_visit, built >>
       ELSE /\ pc' = "add_unique_variables"
            /\ fields_to_visit' = non_input_fields
            /\ built' = Append(built, non_input_fields)
  /\ UNCHANGED << elsewhere, expanded, counters, call_args, outputs, history, i,
                  non_input_fields, non_input_outputs, procedure, unique_variables,
                  computed_inputs, params, pulls, written, materialized, executed >>

add_unique_variables_loop ==
  /\ pc = "add_unique_variables"
  /\ fields_to_visit # <<>>
  /\ LET r == add_unique_variables_step(fields_to_visit, procedure, unique_variables)
         above == (Len(fields_to_visit) + 1)..Len(r.stack)
         emitted == Len(r.proc.instrs) > Len(procedure.instrs)
     IN /\ fields_to_visit' = r.stack
        /\ procedure' = r.proc
        /\ unique_variables' = r.map
        /\ pushed' = [s \in Sources |->
                        pushed[s] + Cardinality({ k \in above : r.stack[k].src = s })]
        /\ examined' = IF above # {} \/ emitted
                         THEN [examined EXCEPT ![Peek(fields_to_visit).src] = @ + 1]
                         ELSE examined
        /\ iterations' = Min({ iterations + 1, MaxIterations })
        /\ blocked' = (blocked \cap (1..Len(r.stack))) \cup
                         (IF above # {} THEN { Len(fields_to_visit) } ELSE {})
  /\ UNCHANGED << pc, elsewhere, expanded, call_args, outputs, history, i,
                  non_input_fields, non_input_outputs, computed_inputs, params,
                  ghosts >>

\* The loop of add_unique_variables left while one field is still on the stack.
add_unique_variables_exit_early ==
  /\ pc = "add_unique_variables"
  /\ Len(fields_to_visit) <= 1
  /\ pc' = "add_destructs"
  /\ UNCHANGED << elsewhere, expanded, counters, call_args, outputs, history, locals,
                  ghosts >>


add_unique_variables_exit ==
  /\ pc = "add_unique_variables"
  /\ fields_to_visit = <<>>
  /\ pc' = "add_destructs"
  /\ UNCHANGED << elsewhere, expanded, counters, call_args, outputs, history, locals,
                  ghosts >>

\* build_procedure calling builder.add_return() before add_destructs.
build_procedure_return_first ==
  /\ pc = "add_destructs"
  /\ IF \E k \in DOMAIN non_input_fields : is_input(non_input_fields[k])
       THEN /\ BLI_assert_failed
            /\ UNCHANGED procedure
       ELSE /\ pc' = "add_output_parameters"
            /\ \E order \in Perms(DOMAIN unique_variables) :
                 procedure' = add_destructs(non_input_fields, add_return(procedure),
                                            unique_variables, order)
  /\ UNCHANGED << elsewhere, expanded, counters, call_args, outputs, history, i,
                  non_input_fields, non_input_outputs, unique_variables,
                  fields_to_visit, computed_inputs, params, ghosts >>


\* add_destructs, with BLI_assert(!field.is_input()); then builder.add_return().
build_procedure_destructs ==
  /\ pc = "add_destructs"
  /\ IF \E k \in DOMAIN non_input_fields : is_input(non_input_fields[k])
       THEN /\ BLI_assert_failed
            /\ UNCHANGED procedure
       ELSE /\ pc' = "add_output_parameters"
            /\ \E order \in Perms(DOMAIN unique_variables) :
                 procedure' = add_return(add_destructs(non_input_fields, procedure,
                                                       unique_variables, order))
  /\ UNCHANGED << elsewhere, expanded, counters, call_args, outputs, history, i,
                  non_input_fields, non_input_outputs, unique_variables,
                  fields_to_visit, computed_inputs, params, ghosts >>

\* The output parameters and BLI_assert(procedure.validate()); gather_inputs starts.
build_procedure_outputs ==
  /\ pc = "add_output_parameters"
  /\ LET proc == add_output_parameters(non_input_fields, procedure, unique_variables)
     IN /\ procedure' = proc
        /\ IF validate(proc)
             THEN /\ pc' = "gather_inputs"
                  /\ fields_to_visit' = non_input_fields
             ELSE /\ BLI_assert_failed
                  /\ UNCHANGED fields_to_visit
  /\ UNCHANGED << elsewhere, expanded, counters, call_args, outputs, history, i,
                  non_input_fields, non_input_outputs, unique_variables,
                  computed_inputs, params, ghosts >>

gather_inputs_loop ==
  /\ pc = "gather_inputs"
  /\ fields_to_visit # <<>>
  /\ LET r == gather_inputs_step(fields_to_visit, unique_variables, computed_inputs,
                                 params, pulls)
     IN /\ fields_to_visit' = r.stack
        /\ computed_inputs' = r.computed
        /\ params' = r.params
        /\ pulls' = r.pulls
        /\ expanded' = IF Len(r.stack) >= Len(fields_to_visit)
                         THEN [expanded EXCEPT ![Peek(fields_to_visit).src] = @ + 1]
                         ELSE expanded
  /\ UNCHANGED << pc, elsewhere, counters, call_args, outputs, history, i,
                  non_input_fields, non_input_outputs, procedure, unique_variables,
                  written, materialized, built, executed >>

\* The end of gather_inputs, then add_outputs.
gather_inputs_exit ==
  /\ pc = "gather_inputs"
  /\ fields_to_visit = <<>>
  /\ params' = add_outputs(params, non_input_outputs)
  /\ pc' = "executor_call"
  /\ UNCHANGED << elsewhere, expanded, counters, call_args, outputs, history, i,
                  non_input_fields, non_input_outputs, procedure, unique_variables,
                  fields_to_visit, computed_inputs, ghosts >>

\* executor.call(mask, params, context); evaluate_fields returns.
evaluate_non_input_fields_call ==
  /\ pc = "executor_call"
  /\ \E garbage \in GarbageValues :
       outputs' = executor_call(procedure, params, mask, outputs, garbage)
  /\ written' = written \cup executor_writes(procedure, params, mask)
  /\ executed' = executed + 1
  /\ pc' = "done"
  /\ UNCHANGED << elsewhere, expanded, counters, call_args, history, locals, pulls,
                  materialized, built >>

Next ==
  \/ call_evaluate_fields
  \/ evaluate_constant_field
  \/ call_again
  \/ evaluate_fields_begin
  \/ split_loop
  \/ split_exit
  \/ add_unique_variables_loop
  \/ add_unique_variables_exit
  \/ build_procedure_destructs
  \/ build_procedure_outputs
  \/ gather_inputs_loop
  \/ gather_inputs_exit
  \/ evaluate_non_input_fields_call

Spec == Init /\ [][Next]_vars

\* The steps of a call that has been entered.  evaluate_fields is single-threaded and
\* synchronous, with no suspension point: a call that can take its next step takes it.
Running ==
  \/ evaluate_fields_begin
  \/ split_loop
  \/ split_exit
  \/ add_unique_variables_loop
  \/ add_unique_variables_exit
  \/ build_procedure_destructs
  \/ build_procedure_outputs
  \/ gather_inputs_loop
  \/ gather_inputs_exit
  \/ evaluate_non_input_fields_call

LiveSpec == Spec /\ WF_vars(Running)

(***************************************************************************)
(* OVERLAY_draw_scene.  scene_calls is the list of the calls made, in      *)
(* order; each step makes the next call of the function body.              *)
(***************************************************************************)
ContextModes ==
  { "CTX_MODE_EDIT_MESH", "CTX_MODE_EDIT_CURVE", "CTX_MODE_EDIT_SURFACE",
    "CTX_MODE_EDIT_TEXT", "CTX_MODE_EDIT_ARMATURE", "CTX_MODE_EDIT_METABALL",
    "CTX_MODE_EDIT_LATTICE", "CTX_MODE_POSE", "CTX_MODE_SCULPT", "CTX_MODE_PAINT_WEIGHT",
    "CTX_MODE_PAINT_VERTEX", "CTX_MODE_PAINT_TEXTURE", "CTX_MODE_PARTICLE",
    "CTX_MODE_OBJECT" }

\* The calls from DRW_view_set_active(pd->view_default) to the one before the first
\* test of DRW_state_is_fbo().
DefaultViewCalls ==
  << "DRW_view_set_active", "OVERLAY_image_draw", "OVERLAY_facing_draw",
     "OVERLAY_wireframe_draw", "OVERLAY_armature_draw", "OVERLAY_particle_draw",
     "OVERLAY_metaball_draw", "OVERLAY_extra_draw", "DRW_view_set_active",
     "OVERLAY_grid_draw", "OVERLAY_outline_draw", "DRW_view_set_active" >>

InFrontCalls ==
  << "OVERLAY_wireframe_in_front_draw", "OVERLAY_armature_in_front_draw",
     "OVERLAY_extra_in_front_draw", "OVERLAY_metaball_in_front_draw",
     "OVERLAY_image_in_front_draw" >>

CentersCalls == << "OVERLAY_motion_path_draw", "OVERLAY_extra_centers_draw" >>

\* The calls of the case of switch (pd->ctx_mode) taken for mode.
ModeCalls(mode) ==
  CASE mode = "CTX_MODE_EDIT_MESH" -> << "OVERLAY_edit_mesh_draw" >>
    [] mode \in {"CTX_MODE_EDIT_SURFACE", "CTX_MODE_EDIT_CURVE"} ->
         << "OVERLAY_edit_curve_draw" >>
    [] mode = "CTX_MODE_EDIT_TEXT" ->
         << "OVERLAY_antialiasing_end", "OVERLAY_edit_text_draw" >>
    [] mode = "CTX_MODE_EDIT_LATTICE" -> << "OVERLAY_edit_lattice_draw" >>
    [] mode = "CTX_MODE_POSE" ->
         << "OVERLAY_antialiasing_end", "OVERLAY_paint_draw", "OVERLAY_pose_draw" >>
    [] mode \in {"CTX_MODE_PAINT_WEIGHT", "CTX_MODE_PAINT_VERTEX",
                 "CTX_MODE_PAINT_TEXTURE"} ->
         << "OVERLAY_antialiasing_end", "OVERLAY_paint_draw" >>
    [] mode = "CTX_MODE_PARTICLE" -> << "OVERLAY_edit_particle_draw" >>
    [] mode = "CTX_MODE_SCULPT" -> << "OVERLAY_sculpt_draw" >>
    [] OTHER -> <<>>

\* The cases of the switch that end with return, not with break.
ModeReturns(mode) ==
  mode \in {"CTX_MODE_EDIT_TEXT", "CTX_MODE_POSE", "CTX_MODE_PAINT_WEIGHT",
            "CTX_MODE_PAINT_VERTEX", "CTX_MODE_PAINT_TEXTURE"}

\* The next call of a straight-line run of calls; after the last one, on to next.
RunCalls(here, run, next) ==
  /\ draw_pc = here
  /\ draw_i < Len(run)
  /\ scene_calls' = Append(scene_calls, run[draw_i + 1])
  /\ IF draw_i + 1 = Len(run)
       THEN draw_pc' = next /\ draw_i' = 0
       ELSE draw_pc' = draw_pc /\ draw_i' = draw_i + 1
  /\ UNCHANGED << ctx_mode, is_fbo, clear_in_front >>

\* The draw manager calls OVERLAY_draw_scene; its first call is OVERLAY_antialiasing_start.
OVERLAY_draw_scene_begin ==
  /\ draw_pc = "idle"
  /\ ctx_mode' \in ContextModes
  /\ is_fbo' \in BOOLEAN
  /\ clear_in_front' \in BOOLEAN
  /\ scene_calls' = << "OVERLAY_antialiasing_start" >>
  /\ draw_pc' = "default_view"
  /\ draw_i' = 0
  /\ UNCHANGED << field_vars, embedding_vars >>

OVERLAY_draw_scene_default_view ==
  /\ RunCalls("default_view", DefaultViewCalls, "bind_in_front_fb")
  /\ UNCHANGED << field_vars, embedding_vars >>

\* if (DRW_state_is_fbo()): bind overlay_in_front_fb, and clear its depth if asked.
OVERLAY_draw_scene_bind_in_front_fb ==
  /\ draw_pc = "bind_in_front_fb"
  /\ scene_calls' = scene_calls \o
       (IF is_fbo THEN << "GPU_framebuffer_bind" >> ELSE <<>>) \o
       (IF is_fbo /\ clear_in_front THEN << "GPU_framebuffer_clear_depth" >> ELSE <<>>)
  /\ draw_pc' = "in_front"
  /\ UNCHANGED << ctx_mode, is_fbo, clear_in_front, draw_i, field_vars, embedding_vars >>

OVERLAY_draw_scene_in_front ==
  /\ RunCalls("in_front", InFrontCalls, "bind_default_fb")
  /\ UNCHANGED << field_vars, embedding_vars >>

\* if (DRW_state_is_fbo()): bind overlay_default_fb.
OVERLAY_draw_scene_bind_default_fb ==
  /\ draw_pc = "bind_default_fb"
  /\ scene_calls' = scene_calls \o
       (IF is_fbo THEN << "GPU_framebuffer_bind" >> ELSE <<>>)
  /\ draw_pc' = "centers"
  /\ UNCHANGED << ctx_mode, is_fbo, clear_in_front, draw_i, field_vars, embedding_vars >>

OVERLAY_draw_scene_centers ==
  /\ RunCalls("centers", CentersCalls, "switch")
  /\ UNCHANGED << field_vars, embedding_vars >>

\* switch (pd->ctx_mode) with every case ending in break.
OVERLAY_draw_scene_switch_break ==
  /\ draw_pc = "switch"
  /\ scene_calls' = scene_calls \o ModeCalls(ctx_mode)
  /\ draw_pc' = "antialiasing_end"
  /\ UNCHANGED << ctx_mode, is_fbo, clear_in_front, draw_i, field_vars, embedding_vars >>

\* switch (pd->ctx_mode): the calls of the case, then return or break.
OVERLAY_draw_scene_switch ==
  /\ draw_pc = "switch"
  /\ scene_calls' = scene_calls \o ModeCalls(ctx_mode)
  /\ draw_pc' = IF ModeReturns(ctx_mode) THEN "returned" ELSE "antialiasing_end"
  /\ UNCHANGED << ctx_mode, is_fbo, clear_in_front, draw_i, field_vars, embedding_vars >>

\* The last statement: OVERLAY_antialiasing_end(vedata).
OVERLAY_draw_scene_antialiasing_end ==
  /\ draw_pc = "antialiasing_end"
  /\ scene_calls' = Append(scene_calls, "OVERLAY_antialiasing_end")
  /\ draw_pc' = "returned"
  /\ UNCHANGED << ctx_mode, is_fbo, clear_in_front, draw_i, field_vars, embedding_vars >>

OverlayNext ==
  \/ OVERLAY_draw_scene_begin
  \/ OVERLAY_draw_scene_default_view
  \/ OVERLAY_draw_scene_bind_in_front_fb
  \/ OVERLAY_draw_scene_in_front
  \/ OVERLAY_draw_scene_bind_default_fb
  \/ OVERLAY_draw_scene_centers
  \/ OVERLAY_draw_scene_switch
  \/ OVERLAY_draw_scene_antialiasing_end

OverlaySpec == Init /\ [][OverlayNext]_vars

(***************************************************************************)
(* EmbeddedMesh::compute_embedding.  Coordinates are counted in quarters   *)
(* (Unit is 1.0); the lattice is two tets that share a face, and a rest    *)
(* position is one of a few points whose place in the lattice is known.    *)
(***************************************************************************)
MaxVerts == 2

Unit == 4

Ones == << Unit, Unit, Unit, Unit >>

Points == { "in_tet_0", "on_shared_face", "at_vertex_of_tet_1", "near_tet_1", "outside" }

\* What resize() leaves in the entries of emb_vtx_to_tet: any value.
GarbageTets == { -7, 0 }

\* tree->traverse(traverser) for the point pt: success and traverser.output.prim.
traverse(pt) ==
  CASE pt = "in_tet_0" -> [success |-> TRUE, prim |-> 0]
    [] pt = "on_shared_face" -> [success |-> TRUE, prim |-> 0]
    [] pt = "at_vertex_of_tet_1" -> [success |-> TRUE, prim |-> 1]
    [] pt = "near_tet_1" -> [success |-> TRUE, prim |-> 1]
    [] pt = "outside" -> [success |-> FALSE, prim |-> -1]

\* geom::point_tet_barys(pt, t[0], t[1], t[2], t[3]) for the tet tet found for pt.
point_tet_barys(pt, tet) ==
  CASE pt = "in_tet_0" /\ tet = 0 -> << 1, 1, 1, 1 >>
    [] pt = "on_shared_face" /\ tet = 0 -> << 0, 2, 1, 1 >>
    [] pt = "at_vertex_of_tet_1" /\ tet = 1 -> << Unit, 0, 0, 0 >>
    [] pt = "near_tet_1" /\ tet = 1 -> << Unit + 1, -1, 0, 0 >>

minCoeff(b) == CHOOSE x \in Range(b) : \A y \in Range(b) : x <= y

maxCoeff(b) == CHOOSE x \in Range(b) : \A y \in Range(b) : x >= y

sum(b) == b[1] + b[2] + b[3] + b[4]

\* The indices of the embedded vertices (rows of emb_rest_x).
Verts == DOMAIN emb_rest_x

ReadAccess(task, array, index) == << task, << array, index >>, "read" >>

WriteAccess(task, array, index) == << task, << array, index >>, "write" >>

\* compute_embedding with emb_barys.setZero() for setOnes().
compute_embedding_begin_zero ==
  /\ emb_pc = "idle"
  /\ \E nv \in 0..MaxVerts, g \in GarbageTets :
       \E x \in [0..(nv - 1) -> Points] :
         /\ emb_rest_x' = x
         /\ IF nv = 0
              THEN /\ embedding_result' = "false"
                   /\ emb_pc' = "returned"
                   /\ UNCHANGED << emb_barys, emb_vtx_to_tet, task_pc, tet_idx >>
              ELSE /\ emb_barys' = [k \in 0..(nv - 1) |-> << 0, 0, 0, 0 >>]
                   /\ emb_vtx_to_tet' = [k \in 0..(nv - 1) |-> g]
                   /\ task_pc' = [k \in 0..(nv - 1) |-> "traverse"]
                   /\ tet_idx' = [k \in 0..(nv - 1) |-> -1]
                   /\ emb_pc' = "parallel"
                   /\ UNCHANGED embedding_result
  /\ UNCHANGED << accesses, check_i, field_vars, overlay_vars >>

\* From the entry to BLI_task_parallel_range: nv == 0 returns false; else the arrays
\* are sized, emb_barys set to ones, and one task per vertex index is there to run.
compute_embedding_begin ==
  /\ emb_pc = "idle"
  /\ \E nv \in 0..MaxVerts, g \in GarbageTets :
       \E x \in [0..(nv - 1) -> Points] :
         /\ emb_rest_x' = x
         /\ IF nv = 0
              THEN /\ embedding_result' = "false"
                   /\ emb_pc' = "returned"
                   /\ UNCHANGED << emb_barys, emb_vtx_to_tet, task_pc, tet_idx >>
              ELSE /\ emb_barys' = [k \in 0..(nv - 1) |-> Ones]
                   /\ emb_vtx_to_tet' = [k \in 0..(nv - 1) |-> g]
                   /\ task_pc' = [k \in 0..(nv - 1) |-> "traverse"]
                   /\ tet_idx' = [k \in 0..(nv - 1) |-> -1]
                   /\ emb_pc' = "parallel"
                   /\ UNCHANGED embedding_result
  /\ UNCHANGED << accesses, check_i, field_vars, overlay_vars >>

\* Task n, from its start to the test of success && tet_idx >= 0.
parallel_point_in_tet_traverse(n) ==
  /\ emb_pc = "parallel"
  /\ task_pc[n] = "traverse"
  /\ LET r == traverse(emb_rest_x[n])
     IN /\ tet_idx' = [tet_idx EXCEPT ![n] = r.prim]
        /\ task_pc' = [task_pc EXCEPT
                         ![n] = IF r.success /\ r.prim >= 0 THEN "write_tet" ELSE "done"]
  /\ accesses' = accesses \cup
       { ReadAccess(n, "emb_rest_x", n), ReadAccess(n, "lat_rest_x", 0),
         ReadAccess(n, "lat_tets", 0), ReadAccess(n, "tree", 0) }
  /\ UNCHANGED << emb_pc, emb_rest_x, emb_barys, emb_vtx_to_tet, check_i,
                  embedding_result, field_vars, overlay_vars >>

\* Task n writing its tet to entry 0 of emb_vtx_to_tet.
parallel_point_in_tet_write_tet_first(n) ==
  /\ emb_pc = "parallel"
  /\ task_pc[n] = "write_tet"
  /\ emb_vtx_to_tet' = [emb_vtx_to_tet EXCEPT ![0] = tet_idx[n]]
  /\ task_pc' = [task_pc EXCEPT ![n] = "write_barys"]
  /\ accesses' = accesses \cup
       { ReadAccess(n, "lat_tets", 0), ReadAccess(n, "lat_rest_x", 0),
         WriteAccess(n, "emb_vtx_to_tet", 0) }
  /\ UNCHANGED << emb_pc, emb_rest_x, emb_barys, tet_idx, check_i, embedding_result,
                  field_vars, overlay_vars >>

\* Task n: the row of the tet and its four corners are read, emb_vtx_to_tet[n] written.
parallel_point_in_tet_write_tet(n) ==
  /\ emb_pc = "parallel"
  /\ task_pc[n] = "write_tet"
  /\ emb_vtx_to_tet' = [emb_vtx_to_tet EXCEPT ![n] = tet_idx[n]]
  /\ task_pc' = [task_pc EXCEPT ![n] = "write_barys"]
  /\ accesses' = accesses \cup
       { ReadAccess(n, "lat_tets", 0), ReadAccess(n, "lat_rest_x", 0),
         WriteAccess(n, "emb_vtx_to_tet", n) }
  /\ UNCHANGED << emb_pc, emb_rest_x, emb_barys, tet_idx, check_i, embedding_result,
                  field_vars, overlay_vars >>

\* Task n: point_tet_barys, then emb_barys.row(n) written.
parallel_point_in_tet_write_barys(n) ==
  /\ emb_pc = "parallel"
  /\ task_pc[n] = "write_barys"
  /\ emb_barys' = [emb_barys EXCEPT ![n] = point_tet_barys(emb_rest_x[n], tet_idx[n])]
  /\ task_pc' = [task_pc EXCEPT ![n] = "done"]
  /\ accesses' = accesses \cup { WriteAccess(n, "emb_barys", n) }
  /\ UNCHANGED << emb_pc, emb_rest_x, emb_vtx_to_tet, tet_idx, check_i, embedding_result,
                  field_vars, overlay_vars >>

\* BLI_task_parallel_range returns when every task has run.
BLI_task_parallel_range_return ==
  /\ emb_pc = "parallel"
  /\ \A n \in Verts : task_pc[n] = "done"
  /\ emb_pc' = "check"
  /\ check_i' = 0
  /\ UNCHANGED << emb_rest_x, emb_barys, emb_vtx_to_tet, task_pc, tet_idx, accesses,
                  embedding_result, field_vars, overlay_vars >>

\* One iteration of the loop that checks the rows of emb_barys (eps is below a quarter),
\* or the return true after it.
compute_embedding_check ==
  /\ emb_pc = "check"
  /\ IF check_i = Cardinality(Verts)
       THEN /\ embedding_result' = "true"
            /\ emb_pc' = "returned"
            /\ UNCHANGED check_i
       ELSE LET b == emb_barys[check_i]
            IN IF minCoeff(b) < 0 \/ maxCoeff(b) > Unit \/ sum(b) > Unit
                 THEN /\ embedding_result' = "false"
                      /\ emb_pc' = "returned"
                      /\ UNCHANGED check_i
                 ELSE /\ check_i' = check_i + 1
                      /\ UNCHANGED << emb_pc, embedding_result >>
  /\ UNCHANGED << emb_rest_x, emb_barys, emb_vtx_to_tet, task_pc, tet_idx, accesses,
                  field_vars, overlay_vars >>

EmbeddingNext ==
  \/ compute_embedding_begin
  \/ \E n \in Verts : parallel_point_in_tet_traverse(n)
  \/ \E n \in Verts : parallel_point_in_tet_write_tet(n)
  \/ \E n \in Verts : parallel_point_in_tet_write_barys(n)
  \/ BLI_task_parallel_range_return
  \/ compute_embedding_check

EmbeddingSpec == Init /\ [][EmbeddingNext]_vars

(***************************************************************************)
(* Properties.                                                             *)
(***************************************************************************)
\* The call has returned.
Returned == pc = "done"

\* build_procedure has run to its end in this call.
ProcedureBuilt == pc \in {"gather_inputs", "executor_call", "done"} /\ built # <<>>

\* add_unique_variables has run to its end in this call.
VariablesAdded ==
  pc \in {"add_destructs", "add_output_parameters", "gather_inputs", "executor_call", "done"}
  /\ built # <<>>

\* add_destructs and add_return have run in this call.
DestructsAdded ==
  pc \in {"add_output_parameters", "gather_inputs", "executor_call", "done"} /\ built # <<>>

CallInstructions(proc) == { k \in DOMAIN proc.instrs : proc.instrs[k].op = "call" }

DestructInstructions(proc, v) ==
  { k \in DOMAIN proc.instrs : proc.instrs[k].op = "destruct" /\ proc.instrs[k].ins[1] = v }

ReturnInstructions(proc) == { k \in DOMAIN proc.instrs : proc.instrs[k].op = "return" }

InputParameters(proc) == { j \in DOMAIN proc.params : proc.params[j].kind = "in" }

RequestedVariables ==
  { get_field_variable(non_input_fields[k], unique_variables) : k \in DOMAIN non_input_fields }

\* C1: after evaluate_fields returns, outputs[k] holds at every masked index the value
\* of fields[k] as the graph defines it.
C1_OutputsHoldFieldValues ==
  Returned =>
    \A k \in DOMAIN fields : \A j \in mask :
      outputs[k][j] = FieldValue(fields[k], j)

\* C2: the built procedure has exactly one input parameter per reachable Input, exactly
\* one call per reachable Operation, and nothing for a source that is not reachable.
C2_OneParameterPerInputOneCallPerOperation ==
  VariablesAdded =>
    LET R == ReachableFrom(non_input_fields)
        RI == { s \in R : Graph[s].kind = "input" }
        RO == { s \in R : Graph[s].kind = "operation" }
    IN /\ DOMAIN unique_variables = R
       /\ Cardinality(InputParameters(procedure)) = Cardinality(RI)
       /\ Cardinality(CallInstructions(procedure)) = Cardinality(RO)
       /\ \A s \in RI :
            Cardinality({ j \in InputParameters(procedure) :
                            << procedure.params[j].var >> = unique_variables[s] }) = 1
       /\ \A s \in RO :
            Cardinality({ k \in CallInstructions(procedure) :
                            /\ procedure.instrs[k].outs = unique_variables[s]
                            /\ procedure.instrs[k].fn = Graph[s].fn }) = 1

\* Two operations on the Input A requested together: one input parameter, two calls.
C2_Witness ==
  /\ Returned
  /\ fields = << GField(4, 0), GField(8, 0) >>
  /\ Cardinality(InputParameters(procedure)) = 1
  /\ Cardinality(CallInstructions(procedure)) = 2

\* C3: in one evaluate_fields call the data of each Input is pulled at most once.
C3_EachInputPulledAtMostOnce ==
  \A s \in Sources : pulls[s] <= 1

\* C4: every variable of the built procedure is either the variable of a requested field,
\* with an output-parameter declaration and no destruct, or has exactly one destruct,
\* placed before the return.
C4_DestructOrOutputParameter ==
  /\ DestructsAdded =>
       /\ Cardinality(ReturnInstructions(procedure)) = 1
       /\ \A v \in 1..procedure.nvars :
            IF v \in RequestedVariables
              THEN DestructInstructions(procedure, v) = {}
              ELSE /\ Cardinality(DestructInstructions(procedure, v)) = 1
                   /\ \A k \in DestructInstructions(procedure, v) :
                        \A r \in ReturnInstructions(procedure) : k < r
  /\ ProcedureBuilt => OutputParameterVariables(procedure) = RequestedVariables

\* Output 0 of addsub(A, B) requested: A, B and output 1 are destructed, output 0 is not.
C4_Witness ==
  /\ Returned
  /\ fields = << GField(7, 0) >>
  /\ procedure.nvars = 4
  /\ Cardinality({ k \in DOMAIN procedure.instrs : procedure.instrs[k].op = "destruct" }) = 3
  /\ DestructInstructions(procedure, unique_variables[7][1]) = {}

\* C5: no assertion of build_procedure fails, and in the built procedure every input of a
\* call is an input parameter or an output of a strictly earlier call, none is used after
\* its destruct, and every requested field resolves to a variable of the procedure.
C5_BuiltProcedureIsValid ==
  /\ pc = "aborted" => Len(fields) # Len(outputs)
  /\ ProcedureBuilt =>
       /\ \A k \in CallInstructions(procedure) :
            \A v \in Range(procedure.instrs[k].ins) :
              /\ \/ v \in InputParameterVariables(procedure)
                 \/ \E j \in CallInstructions(procedure) :
                      j < k /\ v \in Range(procedure.instrs[j].outs)
              /\ \A d \in DestructInstructions(procedure, v) : d > k
       /\ \A n \in DOMAIN non_input_fields :
            /\ non_input_fields[n].src \in DOMAIN unique_variables
            /\ non_input_fields[n].idx + 1 \in DOMAIN unique_variables[non_input_fields[n].src]
            /\ get_field_variable(non_input_fields[n], unique_variables)
                 \in 1..procedure.nvars

\* square(double(A)) built: the second call reads the output of the first.
C5_Witness ==
  /\ Returned
  /\ fields = << GField(6, 0) >>
  /\ Cardinality(CallInstructions(procedure)) = 2
  /\ procedure.instrs[2].ins = << procedure.instrs[1].outs[1], procedure.instrs[1].outs[1] >>

\* C6: with fields.size != outputs.size the call fails before any buffer is written and
\* before the data of any Input is pulled.
C6_MismatchFailsFirst ==
  (pc # "evaluate_fields" /\ Len(fields) # Len(outputs)) =>
    /\ pc = "aborted"
    /\ written = {}
    /\ pulls = NoPulls
    /\ materialized = {}
    /\ built = <<>>
    /\ executed = 0
    /\ outputs = [b \in DOMAIN outputs |-> InitBuffer(b, NumElems)]

\* A bare Input and an Operation-rooted field requested with one buffer.
C6_Witness ==
  /\ pc = "aborted"
  /\ fields = << GField(1, 0), GField(4, 0) >>
  /\ Len(outputs) = 1
  /\ mask # {}

\* C7: when evaluate_fields returns, every masked index of every buffer has been written
\* and every other element of every buffer is as it was before the call.
C7_WritesExactlyTheMask ==
  Returned =>
    \A b \in DOMAIN outputs : \A j \in DOMAIN outputs[b] :
      IF j \in mask
        THEN << b, j >> \in written
        ELSE /\ << b, j >> \notin written
             /\ outputs[b][j] = InitBuffer(b, Cardinality(DOMAIN outputs[b]))[j]

\* A bare Input and an Operation-rooted field evaluated over the mask {0} of two elements.
C7_Witness ==
  /\ Returned
  /\ fields = << GField(1, 0), GField(4, 0) >>
  /\ mask = {0}
  /\ written = { << 1, 0 >>, << 2, 0 >> }
  /\ outputs[1][0] = InputValue(1, 0)
  /\ outputs[2][0] = 2 * InputValue(1, 0)

\* C8: one procedure is built and the executor is called once when some requested field
\* is Operation-rooted, none and never when all are bare Inputs; each bare Input is
\* materialized into its own buffer and is not passed to build_procedure.
C8_OneBuildOneExecutorCall ==
  /\ Len(built) <= 1
  /\ executed <= Len(built)
  /\ \A n \in DOMAIN built : \A k \in DOMAIN built[n] : ~is_input(built[n][k])
  /\ Returned =>
       /\ materialized = { << fields[k].src, k >> :
                             k \in { k \in DOMAIN fields : is_input(fields[k]) } }
       /\ IF \E k \in DOMAIN fields : ~is_input(fields[k])
            THEN Len(built) = 1 /\ executed = 1
            ELSE built = <<>> /\ executed = 0 /\ procedure = EmptyProcedure

\* An Operation-rooted field and a bare Input requested together.
C8_Witness ==
  /\ Returned
  /\ fields = << GField(4, 0), GField(1, 0) >>
  /\ materialized = { << 1, 2 >> }
  /\ built = << << GField(4, 0) >> >>
  /\ executed = 1

\* C9: evaluate_constant_field evaluates the one field over the mask {0} into one buffer
\* of one element, and writes exactly that element, the value of the field at index 0.
C9_ConstantFieldValue ==
  (entry = "evaluate_constant_field" /\ Returned) =>
    /\ Len(fields) = 1
    /\ mask = {0}
    /\ Len(outputs) = 1
    /\ DOMAIN outputs[1] = {0}
    /\ written = { << 1, 0 >> }
    /\ outputs[1][0] = FieldValue(fields[1], 0)

\* C10: a second run of the same call ends with the same buffers as the first, whatever
\* the orders in which the two runs enumerate the map for the destructs.
C10_SecondRunSameOutputs ==
  (Returned /\ calls = 2) => outputs = prev_outputs

\* The second run of a call that built a procedure with three destructs.
C10_Witness ==
  /\ Returned
  /\ calls = 2
  /\ fields = << GField(7, 1) >>
  /\ mask = 0..(NumElems - 1)
  /\ Cardinality({ k \in DOMAIN procedure.instrs : procedure.instrs[k].op = "destruct" }) = 3
  /\ outputs = prev_outputs


\* Two distinct sources that no caller can tell apart: the same kind, name, function
\* and input fields.
SameSemantics(s, t) == s # t /\ Graph[s] = Graph[t]

\* C11: two distinct sources with the same semantics are never merged: they get
\* disjoint variables, two Inputs get one input parameter each and one data pull and
\* binding each, two Operations get one call each.
C11_IdentityNotValue ==
  /\ VariablesAdded =>
       \A s, t \in DOMAIN unique_variables :
         SameSemantics(s, t) =>
           /\ Range(unique_variables[s]) \cap Range(unique_variables[t]) = {}
           /\ Graph[s].kind = "input" =>
                \E j, k \in InputParameters(procedure) :
                  /\ j # k
                  /\ << procedure.params[j].var >> = unique_variables[s]
                  /\ << procedure.params[k].var >> = unique_variables[t]
           /\ Graph[s].kind = "operation" =>
                \E j, k \in CallInstructions(procedure) :
                  /\ j # k
                  /\ procedure.instrs[j].outs = unique_variables[s]
                  /\ procedure.instrs[k].outs = unique_variables[t]
  /\ (pc \in {"executor_call", "done"} /\ built # <<>>) =>
       \A s, t \in DOMAIN unique_variables :
         (SameSemantics(s, t) /\ Graph[s].kind = "input") =>
           /\ pulls[s] >= 1
           /\ pulls[t] >= 1
           /\ \E j, k \in DOMAIN params :
                /\ j # k
                /\ params[j] = ReadonlyInput(s)
                /\ params[k] = ReadonlyInput(t)

\* mul(A, A') over two Inputs named A with the same data: two parameters, two pulls.
C11_Witness ==
  /\ Returned
  /\ fields = << GField(5, 0) >>
  /\ SameSemantics(1, 3)
  /\ Cardinality(InputParameters(procedure)) = 2
  /\ pulls[1] = 1
  /\ pulls[3] = 1


\* The request is only output 0 of an Operation that has two outputs, and its
\* procedure has its destructs.
OnlyOutputZeroOfTwo ==
  /\ DestructsAdded
  /\ fields = non_input_fields
  /\ Len(fields) = 1
  /\ ~is_input(fields[1])
  /\ fields[1].idx = 0
  /\ NumOutputs(Graph[fields[1].src].fn) = 2

AllDestructInstructions(proc) ==
  { k \in DOMAIN proc.instrs : proc.instrs[k].op = "destruct" }

\* C12 as stated: when only output 0 of an Operation with two outputs is requested, the
\* procedure has exactly one destruct instruction, the one of output 1, and none of
\* output 0.
C12_ExactlyOneDestruct ==
  OnlyOutputZeroOfTwo =>
    LET outs == unique_variables[fields[1].src]
    IN /\ Cardinality(AllDestructInstructions(procedure)) = 1
       /\ Cardinality(DestructInstructions(procedure, outs[2])) = 1
       /\ DestructInstructions(procedure, outs[1]) = {}

\* C12 amended: when only output 0 of an Operation with two outputs is requested, the
\* procedure has, among the Operation's two output variables, exactly one destruct, the
\* one of output 1, and none of output 0; its other destructs are one for each other
\* variable (the input parameters and the outputs of the operations below).
C12_OneDestructAmongOutputs ==
  OnlyOutputZeroOfTwo =>
    LET outs == unique_variables[fields[1].src]
    IN /\ Cardinality(DestructInstructions(procedure, outs[2])) = 1
       /\ DestructInstructions(procedure, outs[1]) = {}
       /\ Cardinality(AllDestructInstructions(procedure)) = procedure.nvars - 1
       /\ \A v \in (1..procedure.nvars) \ { outs[1] } :
            Cardinality(DestructInstructions(procedure, v)) = 1

\* Output 0 of addsub(A, B): destructs of A, of B and of output 1.
C12_Witness ==
  /\ OnlyOutputZeroOfTwo
  /\ pc = "done"
  /\ fields = << GField(7, 0) >>
  /\ Cardinality(AllDestructInstructions(procedure)) = 3
  /\ DestructInstructions(procedure, unique_variables[7][2]) # {}


\* C13: the loop of add_unique_variables and the loop of gather_inputs end (no call
\* stays inside either of them for ever), and each ends with an empty stack.
C13_WorklistLoopsTerminate ==
  /\ []<>(pc \notin {"add_unique_variables", "gather_inputs"})
  /\ [](pc = "add_destructs" => fields_to_visit = <<>>)
  /\ [](pc = "executor_call" => fields_to_visit = <<>>)

\* Both loops have ended on mul(A - B, A + B), a graph of depth two with two paths to
\* each Input.
C13_Witness ==
  /\ pc = "executor_call"
  /\ fields = << GField(9, 0) >>
  /\ fields_to_visit = <<>>
  /\ Cardinality(CallInstructions(procedure)) = 2
  /\ Cardinality(computed_inputs) = 2


\* C14: in every call of a sequence of calls on the same graph, build_procedure starts
\* with an empty map and an empty procedure, and when add_unique_variables ends the map
\* and the procedure hold what this call made and nothing else: one entry, with one new
\* parameter or call, for every source the call reaches.
C14_FreshMapAndProcedure ==
  /\ [][(pc # "add_unique_variables" /\ pc' = "add_unique_variables") =>
          (procedure' = EmptyProcedure /\ unique_variables' = EmptyMap)]_vars
  /\ [](pc = "add_destructs" =>
          LET R == ReachableFrom(non_input_fields)
              RI == { s \in R : Graph[s].kind = "input" }
              RO == { s \in R : Graph[s].kind = "operation" }
          IN /\ DOMAIN unique_variables = R
             /\ Len(procedure.params) = Cardinality(RI)
             /\ Len(procedure.instrs) = Cardinality(RO)
             /\ \A s \in RI :
                  \E j \in InputParameters(procedure) :
                    << procedure.params[j].var >> = unique_variables[s]
             /\ \A s \in RO :
                  \E k \in CallInstructions(procedure) :
                    procedure.instrs[k].outs = unique_variables[s])

\* The second call on square(double(A)) has made its own three variables and two calls.
C14_Witness ==
  /\ calls = 2
  /\ pc = "add_destructs"
  /\ fields = << GField(6, 0) >>
  /\ prev_outputs # <<>>
  /\ procedure.nvars = 3
  /\ Len(procedure.instrs) = 2
  /\ DOMAIN unique_variables = {1, 4, 6}


\* The bindings of readonly inputs in params, in the order gather_inputs added them.
ReadonlyBindings == SelectSeq(params, LAMBDA b : b.kind = "in")

\* The variables of the input parameters, in the order the builder declared them.
InputParameterOrder ==
  LET ins == SelectSeq(procedure.params, LAMBDA p : p.kind = "in")
  IN [k \in DOMAIN ins |-> ins[k].var]

\* gather_inputs has run to its end in this call.
InputsGathered == pc \in {"executor_call", "done"} /\ built # <<>>

\* C15: the k-th readonly binding added by gather_inputs is the data of the Input whose
\* variable is the k-th input parameter of the procedure.
C15_BindingOrderIsParameterOrder ==
  InputsGathered =>
    /\ Len(ReadonlyBindings) = Len(InputParameterOrder)
    /\ \A k \in DOMAIN ReadonlyBindings :
         unique_variables[ReadonlyBindings[k].src] = << InputParameterOrder[k] >>


\* C16: after gather_inputs the Inputs that have a readonly binding are exactly the
\* Inputs that have an input parameter, each bound exactly once, and no Operation has
\* a binding; so there are as many readonly bindings as input parameters.
C16_BoundInputsAreTheParameters ==
  InputsGathered =>
    LET bound == { ReadonlyBindings[k].src : k \in DOMAIN ReadonlyBindings }
        declared == { s \in DOMAIN unique_variables :
                        /\ Graph[s].kind = "input"
                        /\ unique_variables[s][1] \in InputParameterVariables(procedure) }
    IN /\ bound = declared
       /\ \A s \in bound : Graph[s].kind = "input"
       /\ \A s \in bound :
            Cardinality({ k \in DOMAIN ReadonlyBindings : ReadonlyBindings[k].src = s }) = 1
       /\ Len(ReadonlyBindings) = Cardinality(InputParameters(procedure))
       /\ computed_inputs = InputParameterVariables(procedure)

\* mul(A - B, A + B) with a second request A + B: four paths reach A, four reach B, and
\* each has one binding.
C16_Witness ==
  /\ InputsGathered
  /\ fields = << GField(9, 0), GField(7, 0) >>
  /\ Len(ReadonlyBindings) = 2
  /\ Cardinality(InputParameters(procedure)) = 2
  /\ { ReadonlyBindings[k].src : k \in DOMAIN ReadonlyBindings } = {1, 2}


\* The call instructions whose outputs are the variables recorded for source s.
CallsOf(s) ==
  { k \in CallInstructions(procedure) : procedure.instrs[k].outs = unique_variables[s] }

\* C17: the call of an Operation has one input per input Field of the operation, in the
\* operation's order; input i is the variable recorded for input Field i (the one
\* variable of an Input, the variable at the field's output index of an Operation), and
\* a variable that two input Fields resolve to is passed once for each of them.
C17_CallInputsFollowInputFields ==
  VariablesAdded =>
    \A s \in DOMAIN unique_variables :
      Graph[s].kind = "operation" =>
        /\ CallsOf(s) # {}
        /\ \A k \in CallsOf(s) :
             LET ins == procedure.instrs[k].ins
                 fs == Graph[s].inputs
             IN /\ procedure.instrs[k].fn = Graph[s].fn
                /\ Len(ins) = Len(fs)
                /\ \A n \in DOMAIN fs :
                     ins[n] = IF Graph[fs[n].src].kind = "input"
                                THEN unique_variables[fs[n].src][1]
                                ELSE unique_variables[fs[n].src][fs[n].idx + 1]

\* mul(double(A), double(A)): the call of mul gets the variable of double(A) twice.
C17_Witness ==
  /\ VariablesAdded
  /\ fields = << GField(6, 0) >>
  /\ \E k \in CallsOf(6) :
       /\ Len(procedure.instrs[k].ins) = 2
       /\ procedure.instrs[k].ins[1] = unique_variables[4][1]
       /\ procedure.instrs[k].ins[2] = unique_variables[4][1]


\* The place of an instruction in the order calls, destructs, return.
InstructionRank(op) ==
  CASE op = "call" -> 1
    [] op = "destruct" -> 2
    [] op = "return" -> 3

\* C18: a built procedure is all its calls, then all its destructs, then one return:
\* no destruct before a call, nothing after the return; before add_destructs it holds
\* calls only, and an output parameter is declared only when the return is there.
C18_CallsDestructsReturn ==
  /\ [](DestructsAdded =>
          /\ Cardinality(ReturnInstructions(procedure)) = 1
          /\ procedure.instrs[Len(procedure.instrs)].op = "return"
          /\ \A j, k \in DOMAIN procedure.instrs :
               j < k => InstructionRank(procedure.instrs[j].op) <=
                          InstructionRank(procedure.instrs[k].op))
  /\ [](pc \in {"add_unique_variables", "add_destructs"} =>
          /\ DOMAIN procedure.instrs = CallInstructions(procedure)
          /\ OutputParameterVariables(procedure) = {})
  /\ [][Len(procedure'.params) > Len(procedure.params)
          /\ procedure'.params[Len(procedure'.params)].kind = "out"
        => /\ ReturnInstructions(procedure) # {}
           /\ procedure'.instrs = procedure.instrs]_vars

\* mul(A - B, A + B): two calls, then destructs of A, B, A + B and A - B, then the
\* return, and one output parameter.
C18_Witness ==
  /\ DestructsAdded
  /\ pc = "gather_inputs"
  /\ fields = << GField(9, 0) >>
  /\ Len(procedure.instrs) = 7
  /\ CallInstructions(procedure) = {1, 2}
  /\ AllDestructInstructions(procedure) = {3, 4, 5, 6}
  /\ ReturnInstructions(procedure) = {7}
  /\ Cardinality(OutputParameterVariables(procedure)) = 1


\* C19: an iteration of the loop of add_unique_variables pops the top Field in three
\* cases only: its source has an entry (nothing emitted), it is an Input (one input
\* parameter declared), or it is an Operation whose input Fields' sources all have
\* entries (one call emitted); an Operation with a missing input stays on the stack and
\* exactly its lowest-index input Field whose source has no entry is pushed above it.
C19_PopOrPushFirstMissing ==
  [][(pc = "add_unique_variables" /\ fields_to_visit # <<>>) =>
       LET field == Peek(fields_to_visit)
           s == field.src
           missing == { n \in DOMAIN Graph[s].inputs :
                          Graph[s].inputs[n].src \notin DOMAIN unique_variables }
           popped == fields_to_visit' = SubSeq(fields_to_visit, 1, Len(fields_to_visit) - 1)
       IN IF s \in DOMAIN unique_variables
            THEN /\ popped
                 /\ procedure' = procedure
                 /\ unique_variables' = unique_variables
          ELSE IF Graph[s].kind = "input"
            THEN /\ popped
                 /\ procedure'.instrs = procedure.instrs
                 /\ Len(procedure'.params) = Len(procedure.params) + 1
                 /\ procedure'.params[Len(procedure'.params)].kind = "in"
                 /\ DOMAIN unique_variables' = DOMAIN unique_variables \cup {s}
          ELSE IF missing = {}
            THEN /\ popped
                 /\ procedure'.params = procedure.params
                 /\ Len(procedure'.instrs) = Len(procedure.instrs) + 1
                 /\ procedure'.instrs[Len(procedure'.instrs)].op = "call"
                 /\ DOMAIN unique_variables' = DOMAIN unique_variables \cup {s}
          ELSE /\ Len(fields_to_visit') = Len(fields_to_visit) + 1
               /\ SubSeq(fields_to_visit', 1, Len(fields_to_visit)) = fields_to_visit
               /\ \E n \in missing :
                    /\ \A m \in missing : n <= m
                    /\ fields_to_visit'[Len(fields_to_visit')] = Graph[s].inputs[n]
               /\ procedure' = procedure
               /\ unique_variables' = unique_variables]_vars

\* addsub(A, B) with neither Input in the map: it stays on the stack and A is pushed.
C19_Witness ==
  /\ pc = "add_unique_variables"
  /\ fields = << GField(7, 1) >>
  /\ unique_variables = EmptyMap
  /\ Len(Graph[7].inputs) = 2
  /\ fields_to_visit = << GField(7, 1), Graph[7].inputs[1] >>


\* The number of edges (input Fields of Operations) of the part of the graph that the
\* sources of S span.
NumEdges(S) ==
  LET RECURSIVE Sum(_)
      Sum(T) == IF T = {} THEN 0
                ELSE LET s == CHOOSE s \in T : TRUE
                     IN (IF Graph[s].kind = "operation" THEN Len(Graph[s].inputs) ELSE 0)
                        + Sum(T \ {s})
  IN Sum(S)

\* C20: in add_unique_variables every source is pushed as a missing dependency at most
\* once, every Operation is examined by add_variables_for_operation at most 1 + (number
\* of its input Fields) times and never once its call is emitted (the calls emitted are
\* those of the Operations that have an entry, and it has none), and the loop makes at
\* most (number of requested fields) + 2 * (number of edges reached) iterations.
C20_LinearWorklist ==
  /\ [](/\ \A s \in Sources : pushed[s] <= 1
        /\ \A s \in Sources :
             /\ Graph[s].kind = "input" => examined[s] = 0
             /\ Graph[s].kind = "operation" => examined[s] <= 1 + Len(Graph[s].inputs)
        /\ iterations <= Len(non_input_fields)
                           + 2 * NumEdges(ReachableFrom(non_input_fields))
        /\ iterations < MaxIterations)
  /\ [][\A s \in Sources :
          examined'[s] > examined[s] =>
            /\ s \notin DOMAIN unique_variables
            /\ Cardinality(CallInstructions(procedure)) =
                 Cardinality({ t \in DOMAIN unique_variables :
                                 Graph[t].kind = "operation" })]_vars

\* mul(A - B, A + B) and A + B requested together: addsub is examined three times
\* (two pushes, then its call), mul twice, and A, B and addsub are pushed once each.
C20_Witness ==
  /\ pc = "add_destructs"
  /\ fields = << GField(7, 0), GField(9, 0) >>
  /\ examined[7] = 3
  /\ examined[9] = 2
  /\ pushed[1] = 1
  /\ pushed[2] = 1
  /\ pushed[7] = 1
  /\ iterations = 8


\* C21: in one call of gather_inputs every Operation is popped and expanded (its input
\* Fields pushed) at most once, also when several paths or several requested fields
\* reach it.
C21_EachOperationExpandedOnce ==
  \A s \in Sources : expanded[s] <= 1


\* The positions of the requested fields that are not bare Inputs.
NonInputPositions == { k \in DOMAIN fields : ~is_input(fields[k]) }

\* C22: in the splitting loop the entries at and below the loop index are still the
\* original pairs, so the field examined at step i is fields[i] and the buffer a bare
\* Input is materialized into is outputs[i]; after the loop non_input_fields and
\* non_input_outputs have the same length, every pair of them is an original pair whose
\* field is not a bare Input, and every such original pair occurs exactly once.
C22_SplitKeepsThePairs ==
  /\ pc = "split" =>
       /\ Len(non_input_fields) = Len(non_input_outputs)
       /\ \A k \in 1..i :
            /\ non_input_fields[k] = fields[k]
            /\ non_input_outputs[k] = k
       /\ \A k \in DOMAIN non_input_fields :
            non_input_fields[k] = fields[non_input_outputs[k]]
       /\ \A m \in materialized :
            /\ m[2] \in (i + 1)..Len(fields)
            /\ is_input(fields[m[2]])
            /\ fields[m[2]].src = m[1]
  /\ ((pc = "split" /\ i = 0) \/ built # <<>> \/ Returned) =>
       /\ Len(non_input_fields) = Len(non_input_outputs)
       /\ \A k \in DOMAIN non_input_fields :
            /\ non_input_outputs[k] \in NonInputPositions
            /\ non_input_fields[k] = fields[non_input_outputs[k]]
       /\ \A n \in NonInputPositions :
            Cardinality({ k \in DOMAIN non_input_outputs : non_input_outputs[k] = n }) = 1
       /\ materialized = { << fields[k].src, k >> : k \in DOMAIN fields \ NonInputPositions }

\* The bare Input A at position 1 was removed and double(A), with its buffer 2, moved
\* to position 1.
C22_Witness ==
  /\ pc = "split"
  /\ i = 0
  /\ fields = << GField(1, 0), GField(4, 0) >>
  /\ non_input_fields = << GField(4, 0) >>
  /\ non_input_outputs = << 2 >>
  /\ materialized = { << 1, 1 >> }


\* The variables of the output parameters, in the order build_procedure declared them.
OutputParameterOrder ==
  LET outs == SelectSeq(procedure.params, LAMBDA p : p.kind = "out")
  IN [k \in DOMAIN outs |-> outs[k].var]

\* The buffers registered with the params builder, in the order add_outputs added them.
OutputBindings ==
  LET outs == SelectSeq(params, LAMBDA b : b.kind = "out")
  IN [k \in DOMAIN outs |-> outs[k].buf]

\* Every entry of kind "in" stands before every entry of kind "out".
InputsBeforeOutputs(seq) ==
  \A j, k \in DOMAIN seq : (seq[j].kind = "in" /\ seq[k].kind = "out") => j < k

\* C23: the k-th output parameter of the procedure is the variable of the k-th field
\* passed to evaluate_non_input_fields and the k-th output buffer of the params builder
\* is the k-th buffer passed; the input parameters stand before the output parameters
\* and the readonly bindings before the output buffers; there is one output parameter
\* per field, also when two fields have the same variable.
C23_OutputsInRequestOrder ==
  /\ ProcedureBuilt =>
       /\ Len(OutputParameterOrder) = Len(non_input_fields)
       /\ \A k \in DOMAIN non_input_fields :
            OutputParameterOrder[k] =
              unique_variables[non_input_fields[k].src][non_input_fields[k].idx + 1]
       /\ InputsBeforeOutputs(procedure.params)
  /\ InputsGathered =>
       /\ OutputBindings = non_input_outputs
       /\ Len(OutputBindings) = Len(OutputParameterOrder)
       /\ InputsBeforeOutputs(params)

\* double(A) requested twice: two output parameters of the one variable, bound to the
\* two buffers in the order of non_input_fields.
C23_Witness ==
  /\ InputsGathered
  /\ Len(non_input_fields) = 2
  /\ non_input_fields[1].src = non_input_fields[2].src
  /\ OutputParameterOrder[1] = OutputParameterOrder[2]
  /\ Len(OutputBindings) = 2
  /\ Len(ReadonlyBindings) = 1


\* C24: no list of fields passed to build_procedure holds a bare Input, whatever the
\* mix of bare Inputs and Operation fields requested, so BLI_assert(!field.is_input())
\* in add_destructs holds: the only assertion that ends a call is the one on the
\* lengths of fields and outputs.
C24_NoBareInputIsBuilt ==
  /\ \A b \in DOMAIN built : \A k \in DOMAIN built[b] : ~is_input(built[b][k])
  /\ (pc \in {"add_unique_variables", "add_destructs"}) =>
       \A k \in DOMAIN non_input_fields : ~is_input(non_input_fields[k])
  /\ pc = "aborted" => (Len(fields) # Len(outputs) /\ built = <<>>)

\* add_destructs is reached with double(A) alone, for the request A, double(A).
C24_Witness ==
  /\ pc = "add_destructs"
  /\ fields = << GField(1, 0), GField(4, 0) >>
  /\ non_input_fields = << GField(4, 0) >>
  /\ built = << << GField(4, 0) >> >>


\* C25: in a procedure built through evaluate_fields no variable is both an input
\* parameter and an output parameter, and every variable of an input parameter has a
\* destruct instruction.
C25_InputParametersAreDestructed ==
  DestructsAdded =>
    /\ InputParameterVariables(procedure) \cap OutputParameterVariables(procedure) = {}
    /\ InputParameterVariables(procedure) \cap RequestedVariables = {}
    /\ \A v \in InputParameterVariables(procedure) :
         DestructInstructions(procedure, v) # {}

\* The request A, double(A): A is the input parameter of the procedure, destructed,
\* and the output parameter is the variable of double(A).
C25_Witness ==
  /\ ProcedureBuilt
  /\ fields = << GField(1, 0), GField(4, 0) >>
  /\ InputParameterVariables(procedure) = { unique_variables[1][1] }
  /\ OutputParameterVariables(procedure) = { unique_variables[4][1] }
  /\ DestructInstructions(procedure, unique_variables[1][1]) # {}


\* C26: within one call the map only grows: an entry, once made, is neither changed
\* nor removed by a later step of the build or of gather_inputs; the entry of an Input
\* is one variable, that of its input parameter, and the entry of an Operation is the
\* list of the output variables of its one call, in output order.
C26_MapOnlyGrows ==
  /\ [][pc' # "evaluate_fields" =>
          \A s \in DOMAIN unique_variables :
            /\ s \in DOMAIN unique_variables'
            /\ unique_variables'[s] = unique_variables[s]]_vars
  /\ [](\A s \in DOMAIN unique_variables :
          /\ Graph[s].kind = "input" =>
               /\ Len(unique_variables[s]) = 1
               /\ unique_variables[s][1] \in InputParameterVariables(procedure)
          /\ Graph[s].kind = "operation" =>
               /\ Len(unique_variables[s]) = NumOutputs(Graph[s].fn)
               /\ Cardinality(CallsOf(s)) = 1
               /\ \A k \in CallsOf(s) : procedure.instrs[k].fn = Graph[s].fn)

\* The entries of A, B and addsub(A, B), made during the build, are still there when
\* the call has returned.
C26_Witness ==
  /\ Returned
  /\ fields = << GField(7, 0), GField(7, 1) >>
  /\ DOMAIN unique_variables = {1, 2, 7}
  /\ Len(unique_variables[7]) = 2
  /\ Len(unique_variables[1]) = 1


\* The lookups of get_field_variable(field, map) succeed: the source has an entry and
\* the index read is within its list of variables.
LookupSucceeds(field, map) ==
  /\ field.src \in DOMAIN map
  /\ (IF is_input(field) THEN 1 ELSE field.idx + 1) \in DOMAIN map[field.src]

\* C27: every lookup of get_field_variable succeeds: for the fields of the request when
\* add_destructs forms its outputs set and when the output parameters are declared,
\* for every field gather_inputs has on its stack, and for the input Fields of an
\* Operation at the step that emits its call.
C27_LookupsSucceed ==
  /\ [](pc \in {"add_destructs", "add_output_parameters"} =>
          \A k \in DOMAIN non_input_fields :
            LookupSucceeds(non_input_fields[k], unique_variables))
  /\ [](pc = "gather_inputs" =>
          \A k \in DOMAIN fields_to_visit :
            LookupSucceeds(fields_to_visit[k], unique_variables))
  /\ [][(pc = "add_unique_variables"
         /\ Len(procedure'.instrs) > Len(procedure.instrs)) =>
          LET inputs == Graph[fields_to_visit[Len(fields_to_visit)].src].inputs
          IN \A k \in DOMAIN inputs : LookupSucceeds(inputs[k], unique_variables)]_vars

\* gather_inputs with A and B on its stack above output 1 of addsub(A, B), which
\* mul(A - B, A + B) reads at index 1.
C27_Witness ==
  /\ pc = "gather_inputs"
  /\ fields = << GField(9, 0) >>
  /\ Len(fields_to_visit) = 3
  /\ fields_to_visit[1].idx = 1
  /\ is_input(fields_to_visit[3])
  /\ LookupSucceeds(fields_to_visit[3], unique_variables)


\* The number of times OVERLAY_draw_scene has called f.
TimesCalled(f) == Cardinality({ k \in DOMAIN scene_calls : scene_calls[k] = f })

\* The modes whose overlay needs the final colour, and the draw functions of each.
DrawsAfterAntialiasing(mode) ==
  CASE mode = "CTX_MODE_EDIT_TEXT" -> { "OVERLAY_edit_text_draw" }
    [] mode = "CTX_MODE_POSE" -> { "OVERLAY_paint_draw", "OVERLAY_pose_draw" }
    [] mode \in {"CTX_MODE_PAINT_WEIGHT", "CTX_MODE_PAINT_VERTEX",
                 "CTX_MODE_PAINT_TEXTURE"} -> { "OVERLAY_paint_draw" }
    [] OTHER -> {}

\* C28: OVERLAY_draw_scene calls OVERLAY_antialiasing_start once, as its first call, and
\* OVERLAY_antialiasing_end once, in every context mode; in the edit-text, pose and
\* paint modes OVERLAY_antialiasing_end comes before the draw functions of the mode and
\* only they follow it, in every other mode it is the last call.
C28_AntialiasingStartAndEndOnce ==
  /\ scene_calls # <<>> =>
       /\ scene_calls[1] = "OVERLAY_antialiasing_start"
       /\ TimesCalled("OVERLAY_antialiasing_start") = 1
  /\ TimesCalled("OVERLAY_antialiasing_end") <= 1
  /\ draw_pc = "returned" =>
       /\ TimesCalled("OVERLAY_antialiasing_end") = 1
       /\ LET e == CHOOSE k \in DOMAIN scene_calls :
                     scene_calls[k] = "OVERLAY_antialiasing_end"
              after == { scene_calls[k] : k \in (e + 1)..Len(scene_calls) }
          IN IF DrawsAfterAntialiasing(ctx_mode) # {}
               THEN /\ after = DrawsAfterAntialiasing(ctx_mode)
                    /\ \A k \in 1..e :
                         scene_calls[k] \notin DrawsAfterAntialiasing(ctx_mode)
               ELSE e = Len(scene_calls)

\* Pose mode with a framebuffer: OVERLAY_antialiasing_end, then OVERLAY_paint_draw and
\* OVERLAY_pose_draw, then the return.
C28_Witness ==
  /\ draw_pc = "returned"
  /\ ctx_mode = "CTX_MODE_POSE"
  /\ is_fbo
  /\ SubSeq(scene_calls, Len(scene_calls) - 2, Len(scene_calls)) =
       << "OVERLAY_antialiasing_end", "OVERLAY_paint_draw", "OVERLAY_pose_draw" >>


\* The vertex n was found in a tet: the test that guards the writes of its task.
Located(n) == traverse(emb_rest_x[n]).success /\ traverse(emb_rest_x[n]).prim >= 0

\* What the tasks leave for vertex n, as a function of its rest position alone.
EmbeddedAsLocated(n) ==
  IF Located(n)
    THEN /\ emb_vtx_to_tet[n] = traverse(emb_rest_x[n]).prim
         /\ emb_barys[n] = point_tet_barys(emb_rest_x[n], traverse(emb_rest_x[n]).prim)
    ELSE /\ emb_vtx_to_tet[n] \in GarbageTets
         /\ emb_barys[n] = Ones

\* C29: the task for vertex i writes only emb_vtx_to_tet[i] and row i of emb_barys,
\* no location is accessed by two different tasks unless both only read it, and once
\* the tasks have run the two arrays are what the rest positions determine, in
\* whatever order the tasks' steps were taken.
C29_TasksDoNotInterfere ==
  /\ \A a \in accesses :
       a[3] = "write" => a[2] \in { << "emb_vtx_to_tet", a[1] >>, << "emb_barys", a[1] >> }
  /\ \A a, b \in accesses :
       (a[1] # b[1] /\ a[2] = b[2]) => (a[3] = "read" /\ b[3] = "read")
  /\ (emb_pc \in { "check", "returned" } /\ Verts # {}) =>
       \A n \in Verts : EmbeddedAsLocated(n)

C29_Witness ==
  /\ emb_pc = "check"
  /\ Cardinality(Verts) = MaxVerts
  /\ \A n \in Verts : Located(n)
  /\ emb_vtx_to_tet[0] # emb_vtx_to_tet[1]
  /\ \A n \in Verts :
       { WriteAccess(n, "emb_vtx_to_tet", n), WriteAccess(n, "emb_barys", n) }
         \subseteq accesses

\* C30: compute_embedding returns true only when there are embedded vertices and each
\* of them was found in a tet and has that tet's barycentric coordinates; with no
\* vertices, or with a vertex the search did not find, it returns false.
C30_TrueOnlyWhenAllLocated ==
  /\ embedding_result = "true" =>
       /\ Verts # {}
       /\ \A n \in Verts : Located(n) /\ EmbeddedAsLocated(n)
  /\ (emb_pc = "returned" /\ (Verts = {} \/ \E n \in Verts : ~Located(n))) =>
       embedding_result = "false"

C30_Witness ==
  /\ emb_pc = "returned"
  /\ embedding_result = "false"
  /\ Cardinality(Verts) = MaxVerts
  /\ Located(0)
  /\ ~Located(1)
  /\ emb_barys[1] = Ones
  /\ check_i = 1


\* The number of edges of the longest dependency path that starts at the source s.
RECURSIVE LongestPathFrom(_)
LongestPathFrom(s) ==
  IF Graph[s].kind = "input"
    THEN 0
    ELSE LET below == { LongestPathFrom(Graph[s].inputs[k].src) :
                          k \in DOMAIN Graph[s].inputs }
         IN 1 + CHOOSE x \in below : \A y \in below : x >= y

\* The longest dependency path of the graph of the fields fs.
LongestPath(fs) ==
  LET from == { LongestPathFrom(fs[k].src) : k \in DOMAIN fs } \cup { 0 }
  IN CHOOSE x \in from : \A y \in from : x >= y

\* The sources the source s depends on, through any number of operations.
TransitiveDependencies(s) == Reachable(s) \ { s }

\* C31: while add_unique_variables runs, the worklist never holds more entries than
\* the number of fields build_procedure was given plus the length of the longest
\* dependency path of their graph, and whatever lies above an Operation that pushed
\* one of its inputs and waits for it is a transitive dependency of that Operation.
C31_WorklistDepthBounded ==
  pc = "add_unique_variables" =>
    /\ Len(fields_to_visit) <= Len(non_input_fields) + LongestPath(non_input_fields)
    /\ \A k \in blocked :
         /\ k \in DOMAIN fields_to_visit
         /\ ~is_input(fields_to_visit[k])
         /\ \A j \in (k + 1)..Len(fields_to_visit) :
              fields_to_visit[j].src \in TransitiveDependencies(fields_to_visit[k].src)

\* Two fields requested, the upper one square(double(A)): it pushed double(A), which
\* pushed A, so the worklist is at its bound with two blocked Operations on it.
C31_Witness ==
  /\ pc = "add_unique_variables"
  /\ Len(non_input_fields) = 2
  /\ LongestPath(non_input_fields) = 2
  /\ Len(fields_to_visit) = Len(non_input_fields) + LongestPath(non_input_fields)
  /\ blocked = { 2, 3 }
  /\ is_input(Peek(fields_to_visit))

====
